---- MODULE Spec2Model ----
(***************************************************************************)
(* Appointment booking backend: the temporal policy (utils/timeUtils.ts),  *)
(* the POST /book and POST /cancel handlers (routes/booking.ts), the GET   *)
(* /slots handler (routes/slots.ts) and the bookings and                   *)
(* availability_rules tables with their constraints (migrations/init.sql). *)
(*                                                                         *)
(* Instants are JavaScript Date values: integers, milliseconds.  A handler *)
(* is an async function; what runs between two awaited db.query calls is   *)
(* one step.  A query is taken together with the code that consumes its    *)
(* result, so POST /book is two steps (validate + SELECT + 409 check, then *)
(* INSERT + response) and POST /cancel is two steps (SELECT + checks, then *)
(* UPDATE + response).  Requests of different clients interleave freely.   *)
(*                                                                         *)
(* POST /availability and DELETE /availability/:id are two steps each in   *)
(* the same way (SELECT + checks, then INSERT or DELETE + response).       *)
(*                                                                         *)
(* now is the system clock, bookings and rules are the two tables,         *)
(* availability_rules_id_seq is the last value drawn for a rule id, req is *)
(* the request each client has in flight or has last been answered, call   *)
(* is one application of a TimeUtils function: its arguments and result.   *)
(***************************************************************************)
EXTENDS Integers, Sequences, FiniteSets, TLC

VARIABLES now, bookings, rules, availability_rules_id_seq, req, call

vars == <<now, bookings, rules, availability_rules_id_seq, req, call>>

----------------------------------------------------------------------------
(* Bounds of the model *)

NumClients == 2
MaxBookings == 2
MaxRuleId == 3

Clients == 1..NumClients

----------------------------------------------------------------------------
(* Time arithmetic (date-fns) *)

Minute == 60000
Hour == 60 * Minute
Day == 24 * Hour

isAfter(date, dateToCompare) == date > dateToCompare
isBefore(date, dateToCompare) == date < dateToCompare
addHours(date, amount) == date + amount * Hour
addDays(date, amount) == date + amount * Day

----------------------------------------------------------------------------
(* Temporal policy: TimeUtils *)

leadTimeHours == 2
horizonDays == 14
noticeHours == 12
minDurationMinutes == 15
maxDurationMinutes == 480

\* a lead-time check that also lets through a start exactly at now + 2h
meetsLeadTime_inclusive(slotStart) ==
    slotStart >= addHours(now, leadTimeHours)

meetsLeadTime(slotStart) ==
    LET minimumTime == addHours(now, leadTimeHours)
    IN  isAfter(slotStart, minimumTime)

\* a horizon check that also lets through a start exactly at now + 14d
withinBookingHorizon_inclusive(slotStart) ==
    slotStart <= addDays(now, horizonDays)

withinBookingHorizon(slotStart) ==
    LET maxDate == addDays(now, horizonDays)
    IN  isBefore(slotStart, maxDate)

\* a notice check that also lets through a start exactly at now + 12h
meetsCancellationNotice_inclusive(slotStart) ==
    slotStart >= addHours(now, noticeHours)

meetsCancellationNotice(slotStart) ==
    LET minimumTime == addHours(now, noticeHours)
    IN  isAfter(slotStart, minimumTime)

\* an overlap test on closed intervals: touching endpoints overlap
slotsOverlap_closed(slot1, slot2) ==
    slot1.start <= slot2.end /\ slot1.end >= slot2.start

slotsOverlap(slot1, slot2) ==
    isBefore(slot1.start, slot2.end) /\ isAfter(slot1.end, slot2.start)

\* an availability flag that does not look at the booking horizon
isAvailable_ignoresHorizon(currentSlot, slotEndTime, bookedSlots) ==
    LET isBooked ==
            \E booking \in bookedSlots :
                slotsOverlap([start |-> currentSlot, end |-> slotEndTime],
                             [start |-> booking.slot_start, end |-> booking.slot_end])
    IN  meetsLeadTime(currentSlot) /\ ~isBooked

\* the availability flag generateSlotsForDate gives the slot
\* [currentSlot, slotEndTime) against the booked slots it is handed
isAvailable(currentSlot, slotEndTime, bookedSlots) ==
    LET isBooked ==
            \E booking \in bookedSlots :
                slotsOverlap([start |-> currentSlot, end |-> slotEndTime],
                             [start |-> booking.slot_start, end |-> booking.slot_end])
    IN  meetsLeadTime(currentSlot) /\ withinBookingHorizon(currentSlot) /\ ~isBooked

----------------------------------------------------------------------------
(* Calendar and clock strings.  A string is the sequence of its characters. *)
(* The server runs in UTC; a time zone is its offset from UTC in minutes    *)
(* (zones without daylight saving), instant 0 is Thursday 1970-01-01 00:00. *)

serverOffsetMinutes == 0

tzOffsetMinutes(timezone) ==
    CASE timezone = "UTC" -> 0
      [] timezone = "Asia/Kolkata" -> 330
      [] timezone = "America/Phoenix" -> 0 - 420

digitValue(ch) ==
    CASE ch = "0" -> 0 [] ch = "1" -> 1 [] ch = "2" -> 2 [] ch = "3" -> 3
      [] ch = "4" -> 4 [] ch = "5" -> 5 [] ch = "6" -> 6 [] ch = "7" -> 7
      [] ch = "8" -> 8 [] ch = "9" -> 9

isDigit(ch) == ch \in {"0", "1", "2", "3", "4", "5", "6", "7", "8", "9"}

digitChar(n) == <<"0", "1", "2", "3", "4", "5", "6", "7", "8", "9">>[n + 1]

NaN == "NaN"

\* String.prototype.split(separator), for a one-character separator: the
\* parts of the string from position i on, part being the characters read
\* since the last separator
RECURSIVE splitFrom(_, _, _, _)
splitFrom(string, separator, i, part) ==
    IF i > Len(string) THEN <<part>>
    ELSE IF string[i] = separator
    THEN <<part>> \o splitFrom(string, separator, i + 1, << >>)
    ELSE splitFrom(string, separator, i + 1, Append(part, string[i]))

split(string, separator) == splitFrom(string, separator, 1, << >>)

\* parseInt(string, 10) of a string without sign or leading blanks: the value
\* of the longest prefix of digits, NaN when that prefix is empty
RECURSIVE digitsValue(_, _)
digitsValue(string, acc) ==
    IF string = << >> \/ ~isDigit(Head(string)) THEN acc
    ELSE digitsValue(Tail(string), 10 * acc + digitValue(Head(string)))

parseInt(string) ==
    IF string = << >> \/ ~isDigit(Head(string)) THEN NaN
    ELSE digitsValue(string, 0)

startOfDay(date) == date - ((date + serverOffsetMinutes * Minute) % Day)
endOfDay(date) == startOfDay(date) + Day - 1
getDay(date) == (((date + serverOffsetMinutes * Minute) \div Day) + 4) % 7
addMinutes(date, amount) == date + amount * Minute

\* Date.prototype.setHours(hours, minutes, 0, 0): the same server-local
\* calendar day at the given wall-clock time
setHours(date, hours, minutes) == startOfDay(date) + hours * Hour + minutes * Minute

\* zonedTimeToUtc(date, timezone): the instant at which the clocks of the
\* zone show what the server's clock shows at date
zonedTimeToUtc(date, timezone) ==
    date + serverOffsetMinutes * Minute - tzOffsetMinutes(timezone) * Minute

\* for "HH:MM" and "HH:MM:SS" strings (other strings make it throw)
timeStringToUTC(timeString, date, timezone) ==
    LET timeParts == split(timeString, ":")
        hours == parseInt(timeParts[1])
        minutes == parseInt(timeParts[2])
        localDate == setHours(date, hours, minutes)
    IN  zonedTimeToUtc(localDate, timezone)

\* days from 1970-01-01 to the civil date year-month-day (proleptic Gregorian)
daysFromCivil(year, month, day) ==
    LET y == IF month <= 2 THEN year - 1 ELSE year
        era == y \div 400
        yearOfEra == y - era * 400
        monthFromMarch == IF month > 2 THEN month - 3 ELSE month + 9
        dayOfYear == (153 * monthFromMarch + 2) \div 5 + day - 1
        dayOfEra == yearOfEra * 365 + yearOfEra \div 4 - yearOfEra \div 100 + dayOfYear
    IN  era * 146097 + dayOfEra - 719468

\* parseISO of a "YYYY-MM-DD" string naming a calendar date: the server-local
\* midnight of that date
parseISO(dateString) ==
    LET dateParts == split(dateString, "-")
    IN  daysFromCivil(parseInt(dateParts[1]), parseInt(dateParts[2]),
                      parseInt(dateParts[3])) * Day
            - serverOffsetMinutes * Minute

\* the civil date that lies the given number of days after 1970-01-01
civilFromDays(days) ==
    LET z == days + 719468
        era == z \div 146097
        dayOfEra == z - era * 146097
        yearOfEra == (dayOfEra - dayOfEra \div 1460 + dayOfEra \div 36524
                        - dayOfEra \div 146096) \div 365
        dayOfYear == dayOfEra - (365 * yearOfEra + yearOfEra \div 4 - yearOfEra \div 100)
        monthFromMarch == (5 * dayOfYear + 2) \div 153
        month == IF monthFromMarch < 10 THEN monthFromMarch + 3 ELSE monthFromMarch - 9
    IN  [year |-> yearOfEra + era * 400 + (IF month <= 2 THEN 1 ELSE 0),
         month |-> month,
         day |-> dayOfYear - (153 * monthFromMarch + 2) \div 5 + 1]

\* formatInTimeZone with the format 'yyyy-MM-dd HH:mm:ss' of GET /slots: the
\* wall clock the zone shows at the instant, as a string
formatInTimezone(date, timezone) ==
    LET zoned == date + tzOffsetMinutes(timezone) * Minute
        civil == civilFromDays(zoned \div Day)
        time == zoned % Day
        pad(n) == <<digitChar((n \div 10) % 10), digitChar(n % 10)>>
    IN  pad(civil.year \div 100) \o pad(civil.year % 100) \o <<"-">>
            \o pad(civil.month) \o <<"-">> \o pad(civil.day) \o <<" ">>
            \o pad(time \div Hour) \o <<":">> \o pad((time % Hour) \div Minute)
            \o <<":">> \o pad((time % Minute) \div 1000)

----------------------------------------------------------------------------
(* Slot generation: TimeUtils.generateSlotsForDate *)

\* a loop that cuts the last slot at the end of the window instead of stopping
RECURSIVE slotsFrom_truncates(_, _, _, _)
slotsFrom_truncates(currentSlot, slotEnd, interval_minutes, bookedSlots) ==
    IF ~isBefore(currentSlot, slotEnd)
    THEN << >>
    ELSE LET slotEndTime == addMinutes(currentSlot, interval_minutes)
         IN  IF isAfter(slotEndTime, slotEnd)
             THEN <<[start |-> currentSlot, end |-> slotEnd,
                     available |-> isAvailable(currentSlot, slotEnd, bookedSlots)]>>
             ELSE <<[start |-> currentSlot, end |-> slotEndTime,
                     available |-> isAvailable(currentSlot, slotEndTime, bookedSlots)]>>
                  \o slotsFrom_truncates(slotEndTime, slotEnd, interval_minutes, bookedSlots)

\* the slots the while loop pushes for one rule, from the cursor on
RECURSIVE slotsFrom(_, _, _, _)
slotsFrom(currentSlot, slotEnd, interval_minutes, bookedSlots) ==
    IF ~isBefore(currentSlot, slotEnd)
    THEN << >>
    ELSE LET slotEndTime == addMinutes(currentSlot, interval_minutes)
         IN  IF isAfter(slotEndTime, slotEnd)
             THEN << >>
             ELSE <<[start |-> currentSlot, end |-> slotEndTime,
                     available |-> isAvailable(currentSlot, slotEndTime, bookedSlots)]>>
                  \o slotsFrom(slotEndTime, slotEnd, interval_minutes, bookedSlots)

\* the listing without its sorts: the slots in the order the loops push them
sortByStart_keepsOrder(slots) == slots

\* Array.prototype.sort by start time (stable)
RECURSIVE insertByStart(_, _)
insertByStart(slot, sorted) ==
    IF sorted = << >> THEN <<slot>>
    ELSE IF slot.start < Head(sorted).start THEN <<slot>> \o sorted
    ELSE <<Head(sorted)>> \o insertByStart(slot, Tail(sorted))

RECURSIVE sortByStart(_)
sortByStart(slots) ==
    IF slots = << >> THEN << >>
    ELSE insertByStart(slots[Len(slots)], sortByStart(SubSeq(slots, 1, Len(slots) - 1)))

\* the for loop over the rules of the day
RECURSIVE slotsOfRules(_, _, _)
slotsOfRules(rulesForDay, date, bookedSlots) ==
    IF rulesForDay = << >> THEN << >>
    ELSE LET rule == Head(rulesForDay)
             slotStart == timeStringToUTC(rule.start_time, date, rule.timezone)
             slotEnd == timeStringToUTC(rule.end_time, date, rule.timezone)
         IN  slotsFrom(slotStart, slotEnd, rule.interval_minutes, bookedSlots)
                \o slotsOfRules(Tail(rulesForDay), date, bookedSlots)

\* a generator that returns only the slots it flags available
generateSlotsForDate_dropsUnavailable(date, availabilityRules, bookedSlots, hostTimezone) ==
    LET dayOfWeek == getDay(date)
        rulesForDay == SelectSeq(availabilityRules,
                                 LAMBDA rule : rule.day_of_week = dayOfWeek)
    IN  SelectSeq(sortByStart(slotsOfRules(rulesForDay, date, bookedSlots)),
                  LAMBDA slot : slot.available)

generateSlotsForDate(date, availabilityRules, bookedSlots, hostTimezone) ==
    LET dayOfWeek == getDay(date)
        rulesForDay == SelectSeq(availabilityRules,
                                 LAMBDA rule : rule.day_of_week = dayOfWeek)
    IN  sortByStart(slotsOfRules(rulesForDay, date, bookedSlots))

----------------------------------------------------------------------------
(* Error messages, as sequences of words, and String.prototype.includes *)

NoError == << >>
MsgLeadTime == <<"Booking", "must", "be", "at", "least", "2", "hours", "in", "advance">>
MsgHorizon == <<"Booking", "cannot", "be", "more", "than", "14", "days", "in", "advance">>
MsgTooShort == <<"Slot", "duration", "must", "be", "at", "least", "15", "minutes">>
MsgTooLong == <<"Slot", "duration", "cannot", "exceed", "8", "hours">>
MsgEndBeforeStart == <<"Slot", "end", "time", "must", "be", "after", "start", "time">>
MsgDuplicateKey == <<"duplicate", "key", "value", "violates", "unique", "constraint">>
MsgCheckViolation == <<"violates", "check", "constraint">>
MsgInternal == <<"Internal", "server", "error">>
MsgAlreadyBooked == <<"This", "time", "slot", "is", "already", "booked">>
MsgNotFound == <<"Booking", "not", "found">>
MsgAlreadyCancelled == <<"Booking", "is", "already", "cancelled">>
MsgInvalidCode == <<"Invalid", "cancel", "code">>
MsgTooLate == <<"Cancellation", "must", "be", "at", "least", "12", "hours", "before", "the", "appointment", "time">>

includes(message, searchString) ==
    \E i \in 0..(Len(message) - Len(searchString)) :
        \A j \in 1..Len(searchString) : message[i + j] = searchString[j]

----------------------------------------------------------------------------
(* BookingUtils *)

\* a validation whose minimum-duration comparison rejects exactly 15 minutes
validateBookingSlot_exclusiveMin(slotStart, slotEnd) ==
    LET durationMs == slotEnd - slotStart
    IN  IF ~meetsLeadTime(slotStart) THEN MsgLeadTime
        ELSE IF ~withinBookingHorizon(slotStart) THEN MsgHorizon
        ELSE IF durationMs <= minDurationMinutes * Minute THEN MsgTooShort
        ELSE IF durationMs > maxDurationMinutes * Minute THEN MsgTooLong
        ELSE IF ~isAfter(slotEnd, slotStart) THEN MsgEndBeforeStart
        ELSE NoError

\* a validation that looks at the duration before the lead time and the horizon
validateBookingSlot_durationFirst(slotStart, slotEnd) ==
    LET durationMs == slotEnd - slotStart
    IN  IF durationMs < minDurationMinutes * Minute THEN MsgTooShort
        ELSE IF durationMs > maxDurationMinutes * Minute THEN MsgTooLong
        ELSE IF ~meetsLeadTime(slotStart) THEN MsgLeadTime
        ELSE IF ~withinBookingHorizon(slotStart) THEN MsgHorizon
        ELSE IF ~isAfter(slotEnd, slotStart) THEN MsgEndBeforeStart
        ELSE NoError

validateBookingSlot(slotStart, slotEnd) ==
    LET durationMs == slotEnd - slotStart
        \* durationMinutes = durationMs / (1000 * 60) is a float; it is compared
        \* with 15 and 480 by comparing durationMs with 15 and 480 minutes
    IN  IF ~meetsLeadTime(slotStart) THEN MsgLeadTime
        ELSE IF ~withinBookingHorizon(slotStart) THEN MsgHorizon
        ELSE IF durationMs < minDurationMinutes * Minute THEN MsgTooShort
        ELSE IF durationMs > maxDurationMinutes * Minute THEN MsgTooLong
        ELSE IF ~isAfter(slotEnd, slotStart) THEN MsgEndBeforeStart
        ELSE NoError

Uuids == {"u1", "u2"}
generateBookingId == Uuids

\* the cancel codes "A1B2C3" and "ZZZZ99", as the clients send them
CancelCodes ==
    {<<"A", "1", "B", "2", "C", "3">>, <<"Z", "Z", "Z", "Z", "9", "9">>}

\* 'ABCDEFGHIJKLMNOPQRSTUVWXYZ0123456789'
chars ==
    <<"A", "B", "C", "D", "E", "F", "G", "H", "I", "J", "K", "L", "M", "N", "O",
      "P", "Q", "R", "S", "T", "U", "V", "W", "X", "Y", "Z",
      "0", "1", "2", "3", "4", "5", "6", "7", "8", "9">>

\* String.prototype.charAt: the empty string past the end
charAt(string, index) ==
    IF index >= 0 /\ index < Len(string) THEN <<string[index + 1]>> ELSE << >>

\* the values Math.floor(Math.random() * chars.length) takes in the six
\* rounds of a call of generateCancelCode; Math.random() lies in [0, 1)
RandomIndexes == {<<0, 27, 1, 28, 2, 29>>, <<25, 25, 25, 25, 35, 35>>}

\* for (let i = 0; i < 6; i++) result += chars.charAt(...)
RECURSIVE cancelCodeLoop(_, _, _)
cancelCodeLoop(result, i, indexes) ==
    IF ~(i < 6) THEN result
    ELSE cancelCodeLoop(result \o charAt(chars, indexes[i + 1]), i + 1, indexes)

\* the values a call of generateCancelCode returns
generateCancelCode == {cancelCodeLoop(<< >>, 0, indexes) : indexes \in RandomIndexes}

----------------------------------------------------------------------------
(* HTTP responses *)

Response(status, error) == [status |-> status, error |-> error]
NoResponse == Response(0, << >>)

bookCatch(message) ==
    IF \/ includes(message, <<"Booking", "must", "be">>)
       \/ includes(message, <<"Slot", "duration">>)
       \/ includes(message, <<"time", "must", "be">>)
    THEN Response(400, message)
    ELSE Response(500, MsgInternal)

----------------------------------------------------------------------------
(* Date ranges of GET /slots *)

MsgFromAfterTo == <<"From", "date", "must", "be", "before", "to", "date">>
MsgRangeTooLong == <<"Date", "range", "cannot", "exceed", "14", "days">>

maxRangeDays == 14

\* what validateDateRange throws, NoError when it returns
validateDateRangeError(fromDate, toDate) ==
    LET from == parseISO(fromDate)
        to == parseISO(toDate)
        \* Math.ceil((to - from) / day)
        daysDiff == 0 - ((0 - (to - from)) \div Day)
    IN  IF isAfter(from, to) THEN MsgFromAfterTo
        ELSE IF daysDiff > maxRangeDays THEN MsgRangeTooLong
        ELSE NoError

\* what validateDateRange returns
validateDateRange(fromDate, toDate) ==
    [from |-> startOfDay(parseISO(fromDate)), to |-> endOfDay(parseISO(toDate))]

RECURSIVE datesFrom(_, _)
datesFrom(currentDate, endDate) ==
    IF isAfter(currentDate, endDate) THEN << >>
    ELSE <<currentDate>> \o datesFrom(addDays(currentDate, 1), endDate)

\* a range that stops before its last date
generateDateRange_exclusive(from, to) ==
    datesFrom(startOfDay(from), startOfDay(to) - Day)

generateDateRange(from, to) == datesFrom(startOfDay(from), startOfDay(to))

slotsCatch(message) ==
    IF includes(message, <<"Date", "range">>) \/ includes(message, <<"date">>)
    THEN Response(400, message)
    ELSE Response(500, MsgInternal)

\* the 200 response of GET /slots.  A slot is given by the instants its
\* start and end strings denote (toISOString keeps the millisecond), its
\* zone and its duration in minutes; two minutes differ by a whole number of
\* milliseconds, so Math.round has half a minute to round up
SlotsResponse(slots, hostTimezone) ==
    [status |-> 200, error |-> << >>, slots |-> slots, count |-> Len(slots),
     hostTimezone |-> hostTimezone]

listedSlot(slot, hostTimezone) ==
    [start |-> slot.start, end |-> slot.end,
     startLocal |-> formatInTimezone(slot.start, hostTimezone),
     endLocal |-> formatInTimezone(slot.end, hostTimezone),
     timezone |-> hostTimezone,
     duration |-> (2 * (slot.end - slot.start) + Minute) \div (2 * Minute)]

----------------------------------------------------------------------------
(* The bookings table *)

Confirmed == "confirmed"
Cancelled == "cancelled"

Rows == 1..Len(bookings)

\* the row an INSERT of routes/booking.ts:49-55 would write
NewRow(user, bookingId, cancelCode, name, slotStart, slotEnd) ==
    [id |-> Len(bookings) + 1, user_id |-> user, booking_id |-> bookingId,
     cancel_code |-> cancelCode, name |-> name, slot_start |-> slotStart,
     slot_end |-> slotEnd, status |-> Confirmed, created_at |-> now]

\* UNIQUE (booking_id)
bookingIdTaken(row) ==
    \E i \in Rows : bookings[i].booking_id = row.booking_id

\* UNIQUE INDEX idx_bookings_no_overlap (user_id, slot_start, slot_end)
\* WHERE status = 'confirmed'
idx_bookings_no_overlap(row) ==
    row.status = Confirmed =>
        ~ \E i \in Rows :
            /\ bookings[i].status = Confirmed
            /\ bookings[i].user_id = row.user_id
            /\ bookings[i].slot_start = row.slot_start
            /\ bookings[i].slot_end = row.slot_end

\* a bookings table without UNIQUE (booking_id)
insertError_noUniqueId(row) ==
    IF ~(row.slot_end > row.slot_start) THEN MsgCheckViolation
    ELSE IF ~idx_bookings_no_overlap(row) THEN MsgDuplicateKey
    ELSE NoError

\* the error an INSERT raises, NoError when the row is accepted
insertError(row) ==
    IF ~(row.slot_end > row.slot_start) THEN MsgCheckViolation
    ELSE IF bookingIdTaken(row) THEN MsgDuplicateKey
    ELSE IF ~idx_bookings_no_overlap(row) THEN MsgDuplicateKey
    ELSE NoError

\* an overlap SELECT with every comparison strict: it misses the identical interval
existingBooking_strict(user, a, b) ==
    {i \in Rows :
        /\ bookings[i].user_id = user
        /\ bookings[i].status = Confirmed
        /\ \/ (bookings[i].slot_start < a /\ bookings[i].slot_end > a)
           \/ (bookings[i].slot_start < b /\ bookings[i].slot_end > b)
           \/ (bookings[i].slot_start > a /\ bookings[i].slot_end < b)}

\* an overlap SELECT on closed intervals: a reservation that touches [a, b) conflicts
existingBooking_closed(user, a, b) ==
    {i \in Rows :
        /\ bookings[i].user_id = user
        /\ bookings[i].status = Confirmed
        /\ bookings[i].slot_start <= b /\ bookings[i].slot_end >= a}

\* an overlap SELECT without the status filter: cancelled rows conflict too
existingBooking_anyStatus(user, a, b) ==
    {i \in Rows :
        /\ bookings[i].user_id = user
        /\ \/ (bookings[i].slot_start <= a /\ bookings[i].slot_end > a)
           \/ (bookings[i].slot_start < b /\ bookings[i].slot_end >= b)
           \/ (bookings[i].slot_start >= a /\ bookings[i].slot_end <= b)}

\* an overlap SELECT without the owner filter: any owner's reservation conflicts
existingBooking_anyOwner(user, a, b) ==
    {i \in Rows :
        /\ bookings[i].status = Confirmed
        /\ \/ (bookings[i].slot_start <= a /\ bookings[i].slot_end > a)
           \/ (bookings[i].slot_start < b /\ bookings[i].slot_end >= b)
           \/ (bookings[i].slot_start >= a /\ bookings[i].slot_end <= b)}

\* the SELECT of POST /book: confirmed rows of the user in conflict with [a, b)
existingBooking(user, a, b) ==
    {i \in Rows :
        /\ bookings[i].user_id = user
        /\ bookings[i].status = Confirmed
        /\ \/ (bookings[i].slot_start <= a /\ bookings[i].slot_end > a)
           \/ (bookings[i].slot_start < b /\ bookings[i].slot_end >= b)
           \/ (bookings[i].slot_start >= a /\ bookings[i].slot_end <= b)}

\* the SELECT of POST /cancel
bookingResult(bookingId) ==
    {i \in Rows : bookings[i].booking_id = bookingId}

----------------------------------------------------------------------------
(* Requests *)

\* no POST /availability body
NoBody ==
    [dayOfWeek |-> 0, startTime |-> << >>, endTime |-> << >>, intervalMin |-> 0,
     timeZone |-> ""]

Idle ==
    [op |-> "none", pc |-> "idle", user |-> 0, slotStart |-> 0, slotEnd |-> 0,
     name |-> "", bookingId |-> "", cancelCode |-> << >>, row |-> 0,
     from |-> << >>, to |-> << >>, availabilityResult |-> << >>,
     body |-> NoBody, id |-> << >>,
     res |-> NoResponse]

\* no TimeUtils function is being applied on its own
NoCall == [fn |-> "none"]

Free(c) == req[c].pc \in {"idle", "done"}

InFlightBooks == {c \in Clients : req[c].op = "book" /\ req[c].pc = "insert"}

Init ==
    /\ now = 0
    /\ bookings = << >>
    /\ rules = << >>
    /\ availability_rules_id_seq = Len(rules)
    /\ req = [c \in Clients |-> Idle]
    /\ call = NoCall

\* POST /book up to the 409 check: validateBookingSlot, the overlap SELECT,
\* the catch block for what validateBookingSlot throws
BookRequest(c, user, name, slotStart, slotEnd) ==
    /\ Free(c)
    /\ LET error == validateBookingSlot(slotStart, slotEnd)
           r == [Idle EXCEPT !.op = "book", !.user = user, !.name = name,
                             !.slotStart = slotStart, !.slotEnd = slotEnd]
       IN  req' = [req EXCEPT ![c] =
                IF error # NoError
                THEN [r EXCEPT !.pc = "done", !.res = bookCatch(error)]
                ELSE IF existingBooking(user, slotStart, slotEnd) # {}
                THEN [r EXCEPT !.pc = "done", !.res = Response(409, MsgAlreadyBooked)]
                ELSE [r EXCEPT !.pc = "insert"]]
    /\ UNCHANGED <<now, bookings, rules, availability_rules_id_seq, call>>

\* POST /book from the id generation on: the INSERT and the 201 response, or
\* the catch block for what the INSERT throws
BookInsert(c) ==
    /\ req[c].op = "book" /\ req[c].pc = "insert"
    /\ \E bookingId \in generateBookingId, cancelCode \in generateCancelCode :
        LET row == NewRow(req[c].user, bookingId, cancelCode, req[c].name,
                          req[c].slotStart, req[c].slotEnd)
            error == insertError(row)
        IN  IF error # NoError
            THEN /\ req' = [req EXCEPT ![c].pc = "done", ![c].res = bookCatch(error)]
                 /\ UNCHANGED bookings
            ELSE /\ bookings' = Append(bookings, row)
                 /\ req' = [req EXCEPT ![c].pc = "done", ![c].row = row.id,
                                       ![c].res = Response(201, << >>)]
    /\ UNCHANGED <<now, rules, availability_rules_id_seq, call>>

\* a cancel handler without the already-cancelled early return
CancelRequest_noCancelledCheck(c, bookingId, cancelCode) ==
    /\ Free(c)
    /\ LET r == [Idle EXCEPT !.op = "cancel", !.bookingId = bookingId,
                             !.cancelCode = cancelCode]
           found == bookingResult(bookingId)
           booking == bookings[CHOOSE i \in found : TRUE]
       IN  req' = [req EXCEPT ![c] =
                IF found = {}
                THEN [r EXCEPT !.pc = "done", !.res = Response(404, MsgNotFound)]
                ELSE IF booking.cancel_code # cancelCode
                THEN [r EXCEPT !.pc = "done", !.res = Response(401, MsgInvalidCode)]
                ELSE IF ~meetsCancellationNotice(booking.slot_start)
                THEN [r EXCEPT !.pc = "done", !.res = Response(400, MsgTooLate)]
                ELSE [r EXCEPT !.pc = "update", !.row = booking.id]]
    /\ UNCHANGED <<now, bookings, rules, availability_rules_id_seq, call>>

\* a cancel handler that writes the status before the cancellation-notice check
CancelRequest_writesBeforeNotice(c, bookingId, cancelCode) ==
    /\ Free(c)
    /\ LET r == [Idle EXCEPT !.op = "cancel", !.bookingId = bookingId,
                             !.cancelCode = cancelCode]
           found == bookingResult(bookingId)
           booking == bookings[CHOOSE i \in found : TRUE]
       IN  IF found = {}
           THEN /\ req' = [req EXCEPT ![c] =
                        [r EXCEPT !.pc = "done", !.res = Response(404, MsgNotFound)]]
                /\ UNCHANGED bookings
           ELSE IF booking.status = Cancelled
           THEN /\ req' = [req EXCEPT ![c] =
                        [r EXCEPT !.pc = "done", !.res = Response(400, MsgAlreadyCancelled)]]
                /\ UNCHANGED bookings
           ELSE IF booking.cancel_code # cancelCode
           THEN /\ req' = [req EXCEPT ![c] =
                        [r EXCEPT !.pc = "done", !.res = Response(401, MsgInvalidCode)]]
                /\ UNCHANGED bookings
           ELSE IF ~meetsCancellationNotice(booking.slot_start)
           THEN /\ req' = [req EXCEPT ![c] =
                        [r EXCEPT !.pc = "done", !.res = Response(400, MsgTooLate)]]
                /\ bookings' = [bookings EXCEPT ![booking.id].status = Cancelled]
           ELSE /\ req' = [req EXCEPT ![c] = [r EXCEPT !.pc = "update", !.row = booking.id]]
                /\ UNCHANGED bookings
    /\ UNCHANGED <<now, rules, availability_rules_id_seq, call>>

\* a cancel handler that verifies the code before it looks at the status
CancelRequest_codeFirst(c, bookingId, cancelCode) ==
    /\ Free(c)
    /\ LET r == [Idle EXCEPT !.op = "cancel", !.bookingId = bookingId,
                             !.cancelCode = cancelCode]
           found == bookingResult(bookingId)
           booking == bookings[CHOOSE i \in found : TRUE]
       IN  req' = [req EXCEPT ![c] =
                IF found = {}
                THEN [r EXCEPT !.pc = "done", !.res = Response(404, MsgNotFound)]
                ELSE IF booking.cancel_code # cancelCode
                THEN [r EXCEPT !.pc = "done", !.res = Response(401, MsgInvalidCode)]
                ELSE IF booking.status = Cancelled
                THEN [r EXCEPT !.pc = "done", !.res = Response(400, MsgAlreadyCancelled)]
                ELSE IF ~meetsCancellationNotice(booking.slot_start)
                THEN [r EXCEPT !.pc = "done", !.res = Response(400, MsgTooLate)]
                ELSE [r EXCEPT !.pc = "update", !.row = booking.id]]
    /\ UNCHANGED <<now, bookings, rules, availability_rules_id_seq, call>>

\* a cancel handler that never compares the cancel code
CancelRequest_anyCode(c, bookingId, cancelCode) ==
    /\ Free(c)
    /\ LET r == [Idle EXCEPT !.op = "cancel", !.bookingId = bookingId,
                             !.cancelCode = cancelCode]
           found == bookingResult(bookingId)
           booking == bookings[CHOOSE i \in found : TRUE]
       IN  req' = [req EXCEPT ![c] =
                IF found = {}
                THEN [r EXCEPT !.pc = "done", !.res = Response(404, MsgNotFound)]
                ELSE IF booking.status = Cancelled
                THEN [r EXCEPT !.pc = "done", !.res = Response(400, MsgAlreadyCancelled)]
                ELSE IF ~meetsCancellationNotice(booking.slot_start)
                THEN [r EXCEPT !.pc = "done", !.res = Response(400, MsgTooLate)]
                ELSE [r EXCEPT !.pc = "update", !.row = booking.id]]
    /\ UNCHANGED <<now, bookings, rules, availability_rules_id_seq, call>>

\* POST /cancel up to the cancellation-notice check: the SELECT by booking_id
\* and the 404 / 400 / 401 / 400 early returns
CancelRequest(c, bookingId, cancelCode) ==
    /\ Free(c)
    /\ LET r == [Idle EXCEPT !.op = "cancel", !.bookingId = bookingId,
                             !.cancelCode = cancelCode]
           found == bookingResult(bookingId)
           booking == bookings[CHOOSE i \in found : TRUE]
       IN  req' = [req EXCEPT ![c] =
                IF found = {}
                THEN [r EXCEPT !.pc = "done", !.res = Response(404, MsgNotFound)]
                ELSE IF booking.status = Cancelled
                THEN [r EXCEPT !.pc = "done", !.res = Response(400, MsgAlreadyCancelled)]
                ELSE IF booking.cancel_code # cancelCode
                THEN [r EXCEPT !.pc = "done", !.res = Response(401, MsgInvalidCode)]
                ELSE IF ~meetsCancellationNotice(booking.slot_start)
                THEN [r EXCEPT !.pc = "done", !.res = Response(400, MsgTooLate)]
                ELSE [r EXCEPT !.pc = "update", !.row = booking.id]]
    /\ UNCHANGED <<now, bookings, rules, availability_rules_id_seq, call>>

\* a cancel that toggles the status instead of setting it
CancelUpdate_toggles(c) ==
    /\ req[c].op = "cancel" /\ req[c].pc = "update"
    /\ bookings' = [bookings EXCEPT ![req[c].row].status =
                        IF @ = Confirmed THEN Cancelled ELSE Confirmed]
    /\ req' = [req EXCEPT ![c].pc = "done", ![c].res = Response(200, << >>)]
    /\ UNCHANGED <<now, rules, availability_rules_id_seq, call>>

\* a cancel whose UPDATE matches every row of the reservation's owner
CancelUpdate_byOwner(c) ==
    /\ req[c].op = "cancel" /\ req[c].pc = "update"
    /\ bookings' = [i \in Rows |->
                        IF bookings[i].user_id = bookings[req[c].row].user_id
                        THEN [bookings[i] EXCEPT !.status = Cancelled]
                        ELSE bookings[i]]
    /\ req' = [req EXCEPT ![c].pc = "done", ![c].res = Response(200, << >>)]
    /\ UNCHANGED <<now, rules, availability_rules_id_seq, call>>

\* POST /cancel: the UPDATE by id and the 200 response
CancelUpdate(c) ==
    /\ req[c].op = "cancel" /\ req[c].pc = "update"
    /\ bookings' = [bookings EXCEPT ![req[c].row].status = Cancelled]
    /\ req' = [req EXCEPT ![c].pc = "done", ![c].res = Response(200, << >>)]
    /\ UNCHANGED <<now, rules, availability_rules_id_seq, call>>

----------------------------------------------------------------------------
(* GET /slots: two steps, the date-range validation with the rules SELECT, *)
(* then the bookings SELECT with the generation and the response.          *)

\* a TIME value as seconds after midnight, the order of ORDER BY start_time
timeOfDay(timeString) ==
    LET timeParts == split(timeString, ":")
    IN  parseInt(timeParts[1]) * 3600 + parseInt(timeParts[2]) * 60
            + (IF Len(timeParts) > 2 THEN parseInt(timeParts[3]) ELSE 0)

ruleBefore(rule1, rule2) ==
    \/ rule1.day_of_week < rule2.day_of_week
    \/ /\ rule1.day_of_week = rule2.day_of_week
       /\ timeOfDay(rule1.start_time) < timeOfDay(rule2.start_time)

RECURSIVE insertRule(_, _)
insertRule(rule, sorted) ==
    IF sorted = << >> THEN <<rule>>
    ELSE IF ruleBefore(rule, Head(sorted)) THEN <<rule>> \o sorted
    ELSE <<Head(sorted)>> \o insertRule(rule, Tail(sorted))

RECURSIVE orderRules(_)
orderRules(rows) ==
    IF rows = << >> THEN << >>
    ELSE insertRule(rows[Len(rows)], orderRules(SubSeq(rows, 1, Len(rows) - 1)))

\* SELECT ... FROM availability_rules WHERE user_id = $1
\* ORDER BY day_of_week, start_time
availabilityRows(user) ==
    LET selected == orderRules(SelectSeq(rules, LAMBDA rule : rule.user_id = user))
    IN  [k \in 1..Len(selected) |->
            [id |-> selected[k].id, day_of_week |-> selected[k].day_of_week,
             start_time |-> selected[k].start_time, end_time |-> selected[k].end_time,
             interval_minutes |-> selected[k].interval_minutes,
             timezone |-> selected[k].timezone]]

BookedSlot(slotStart, slotEnd) == [slot_start |-> slotStart, slot_end |-> slotEnd]

\* a SELECT without the user_id condition: the reservations of every owner
bookingsInRange_anyOwner(user, from, to) ==
    {BookedSlot(bookings[i].slot_start, bookings[i].slot_end) :
        i \in {j \in Rows : /\ bookings[j].status = Confirmed
                            /\ bookings[j].slot_start >= from
                            /\ bookings[j].slot_end <= to}}

\* SELECT slot_start, slot_end FROM bookings WHERE user_id = $1 AND status =
\* 'confirmed' AND slot_start >= $2 AND slot_end <= $3, mapped to bookedSlots
bookingsInRange(user, from, to) ==
    {BookedSlot(bookings[i].slot_start, bookings[i].slot_end) :
        i \in {j \in Rows : /\ bookings[j].user_id = user
                            /\ bookings[j].status = Confirmed
                            /\ bookings[j].slot_start >= from
                            /\ bookings[j].slot_end <= to}}

NoRulesResponse ==
    [status |-> 200, error |-> << >>, slots |-> << >>,
     message |-> "No availability rules found"]

\* the loop over the dates: the available slots of each date, concatenated
RECURSIVE slotsForDates(_, _, _, _)
slotsForDates(dates, availabilityResult, bookedSlots, hostTimezone) ==
    IF dates = << >> THEN << >>
    ELSE LET slotsForDate == generateSlotsForDate(Head(dates), availabilityResult,
                                                  bookedSlots, hostTimezone)
             availableSlots == SelectSeq(slotsForDate, LAMBDA slot : slot.available)
         IN  [k \in 1..Len(availableSlots) |-> listedSlot(availableSlots[k], hostTimezone)]
                \o slotsForDates(Tail(dates), availabilityResult, bookedSlots, hostTimezone)

SlotsRequest(c, user, from, to) ==
    /\ Free(c)
    /\ LET error == validateDateRangeError(from, to)
           availabilityResult == availabilityRows(user)
           r == [Idle EXCEPT !.op = "slots", !.user = user, !.from = from, !.to = to]
       IN  req' = [req EXCEPT ![c] =
                IF error # NoError
                THEN [r EXCEPT !.pc = "done", !.res = slotsCatch(error)]
                ELSE IF Len(availabilityResult) = 0
                THEN [r EXCEPT !.pc = "done", !.res = NoRulesResponse]
                ELSE [r EXCEPT !.pc = "bookings",
                               !.availabilityResult = availabilityResult]]
    /\ UNCHANGED <<now, bookings, rules, availability_rules_id_seq, call>>

\* a listing that takes the host timezone from the last rule of the order
SlotsGenerate_lastRuleZone(c) ==
    /\ req[c].op = "slots" /\ req[c].pc = "bookings"
    /\ LET dateRange == validateDateRange(req[c].from, req[c].to)
           bookedSlots == bookingsInRange(req[c].user, dateRange.from, dateRange.to)
           hostTimezone ==
                req[c].availabilityResult[Len(req[c].availabilityResult)].timezone
           dates == generateDateRange(dateRange.from, dateRange.to)
           allSlots == sortByStart(slotsForDates(dates, req[c].availabilityResult,
                                                 bookedSlots, hostTimezone))
       IN  req' = [req EXCEPT ![c].pc = "done",
                              ![c].res = SlotsResponse(allSlots, hostTimezone)]
    /\ UNCHANGED <<now, bookings, rules, availability_rules_id_seq, call>>

SlotsGenerate(c) ==
    /\ req[c].op = "slots" /\ req[c].pc = "bookings"
    /\ LET dateRange == validateDateRange(req[c].from, req[c].to)
           bookedSlots == bookingsInRange(req[c].user, dateRange.from, dateRange.to)
           hostTimezone == req[c].availabilityResult[1].timezone
           dates == generateDateRange(dateRange.from, dateRange.to)
           allSlots == sortByStart(slotsForDates(dates, req[c].availabilityResult,
                                                 bookedSlots, hostTimezone))
       IN  req' = [req EXCEPT ![c].pc = "done",
                              ![c].res = SlotsResponse(allSlots, hostTimezone)]
    /\ UNCHANGED <<now, bookings, rules, availability_rules_id_seq, call>>

\* the system clock read by new Date()
ClockInstants == {0, 1 * Hour}

Tick ==
    /\ \E t \in ClockInstants : t > now /\ now' = t
    /\ UNCHANGED <<bookings, rules, availability_rules_id_seq, req, call>>

----------------------------------------------------------------------------
(* The requests the clients send *)

Owners == {1, 2}
Names == {"Ann"}

\* [13:00, 14:00) and [13:30, 14:30) intersect; a start 1h away fails the lead
\* time, a start 14d + 1h away the horizon, 10 minutes the minimum duration
Slots ==
    {<<13 * Hour, 14 * Hour>>,
     <<13 * Hour + 30 * Minute, 14 * Hour + 30 * Minute>>,
     <<1 * Hour, 2 * Hour>>,
     <<14 * Day + 1 * Hour, 14 * Day + 2 * Hour>>,
     <<13 * Hour, 13 * Hour + 10 * Minute>>}

Book ==
    /\ Len(bookings) + Cardinality(InFlightBooks) < MaxBookings
    /\ \E c \in Clients, user \in Owners, name \in Names, slot \in Slots :
            BookRequest(c, user, name, slot[1], slot[2])

Insert == \E c \in Clients : BookInsert(c)

Cancel ==
    \E c \in Clients, bookingId \in Uuids, cancelCode \in CancelCodes :
        CancelRequest(c, bookingId, cancelCode)

Update == \E c \in Clients : CancelUpdate(c)

Next == Book \/ Insert \/ Cancel \/ Update \/ Tick

Spec == Init /\ [][Next]_vars

----------------------------------------------------------------------------
(* The temporal policy at its boundaries: book requests whose start and    *)
(* end lie one millisecond and one second around each threshold, sent at   *)
(* a fixed instant against an empty table, one request per client.         *)

PolicyNows == {0, 1000}

PolicyStarts ==
    {2 * Hour - 1000, 2 * Hour, 2 * Hour + 1, 2 * Hour + 1000, 2 * Hour + 2000,
     13 * Hour,
     14 * Day - 1000, 14 * Day - 1, 14 * Day, 14 * Day + 1000, 14 * Day + 2000}

PolicyDurations ==
    {0 - Minute, 0, 14 * Minute + 59000, 15 * Minute - 1, 15 * Minute,
     15 * Minute + 1, 480 * Minute - 1, 480 * Minute, 480 * Minute + 1,
     480 * Minute + 1000, 481 * Minute}

\* every start with a one-hour slot, every duration at a start 13h ahead, and
\* two requests that fail two rules at once
PolicySlots ==
    {<<slotStart, slotStart + 60 * Minute>> : slotStart \in PolicyStarts}
    \cup {<<13 * Hour, 13 * Hour + d>> : d \in PolicyDurations}
    \cup {<<2 * Hour, 2 * Hour + 10 * Minute>>, <<14 * Day, 14 * Day + 481 * Minute>>}

InitPolicy ==
    /\ now \in PolicyNows
    /\ bookings = << >>
    /\ rules = << >>
    /\ availability_rules_id_seq = Len(rules)
    /\ req = [c \in Clients |-> Idle]
    /\ call = NoCall

BookAtBoundary ==
    \E c \in Clients, slot \in PolicySlots :
        /\ req[c].pc = "idle"
        /\ BookRequest(c, 1, "Ann", slot[1], slot[2])

NextPolicy == BookAtBoundary

SpecPolicy == InitPolicy /\ [][NextPolicy]_vars

----------------------------------------------------------------------------
(* validateBookingSlot applied on its own: the intervals around each       *)
(* threshold, and intervals that break two or three rules at once, among   *)
(* them ends at or before the start, too soon, in time and too far ahead.  *)

ValidateSlots ==
    PolicySlots
    \cup {<<2 * Hour, 1 * Hour>>, <<2 * Hour, 2 * Hour>>,
          <<2 * Hour, 2 * Hour + 481 * Minute>>,
          <<14 * Day, 14 * Day + 10 * Minute>>, <<14 * Day, 13 * Day>>,
          <<13 * Hour, 12 * Hour>>}

InitValidate ==
    /\ now \in PolicyNows
    /\ bookings = << >>
    /\ rules = << >>
    /\ availability_rules_id_seq = Len(rules)
    /\ req = [c \in Clients |-> Idle]
    /\ call \in {[fn |-> "validateBookingSlot", slotStart |-> slot[1],
                  slotEnd |-> slot[2], returned |-> FALSE, result |-> NoError] :
                    slot \in ValidateSlots}

ApplyValidateBookingSlot ==
    /\ call.fn = "validateBookingSlot" /\ ~call.returned
    /\ call' = [call EXCEPT !.returned = TRUE,
                            !.result = validateBookingSlot(call.slotStart, call.slotEnd)]
    /\ UNCHANGED <<now, bookings, rules, availability_rules_id_seq, req>>

NextValidate == ApplyValidateBookingSlot

SpecValidate == InitValidate /\ [][NextValidate]_vars

----------------------------------------------------------------------------
(* Rows of availability_rules.  A TIME column is read back as "HH:MM:SS". *)

T0200 == <<"0", "2", ":", "0", "0", ":", "0", "0">>
T0400 == <<"0", "4", ":", "0", "0", ":", "0", "0">>
T0900 == <<"0", "9", ":", "0", "0", ":", "0", "0">>
T0920 == <<"0", "9", ":", "2", "0", ":", "0", "0">>
T1000 == <<"1", "0", ":", "0", "0", ":", "0", "0">>
T1700 == <<"1", "7", ":", "0", "0", ":", "0", "0">>
T2000 == <<"2", "0", ":", "0", "0", ":", "0", "0">>
T2300 == <<"2", "3", ":", "0", "0", ":", "0", "0">>

RuleRow(id, user, dayOfWeek, startTime, endTime, intervalMin, timeZone) ==
    [id |-> id, user_id |-> user, day_of_week |-> dayOfWeek,
     start_time |-> startTime, end_time |-> endTime,
     interval_minutes |-> intervalMin, timezone |-> timeZone]

----------------------------------------------------------------------------
(* Cancellation at the notice boundary: an owner with a Monday rule, two   *)
(* bookable intervals, and a clock that stops 13h, 12h + 1ms, 12h and 11h  *)
(* before the first of them.                                               *)

CancelRules == <<RuleRow(1, 1, 1, T0900, T1700, 30, "UTC")>>

CancelSlots == {<<13 * Hour, 14 * Hour>>, <<20 * Hour, 21 * Hour>>}

CancelInstants == {0, 1 * Hour - 1, 1 * Hour, 2 * Hour}

InitCancel ==
    /\ now = 0
    /\ bookings = << >>
    /\ rules = CancelRules
    /\ availability_rules_id_seq = Len(rules)
    /\ req = [c \in Clients |-> Idle]
    /\ call = NoCall

BookCancellable ==
    /\ Len(bookings) + Cardinality(InFlightBooks) < MaxBookings
    /\ \E c \in Clients, slot \in CancelSlots :
            BookRequest(c, 1, "Ann", slot[1], slot[2])

TickCancel ==
    /\ \E t \in CancelInstants : t > now /\ now' = t
    /\ UNCHANGED <<bookings, rules, availability_rules_id_seq, req, call>>

NextCancel == BookCancellable \/ Insert \/ Cancel \/ Update \/ TickCancel

SpecCancel == InitCancel /\ [][NextCancel]_vars

----------------------------------------------------------------------------
(* slotsOverlap applied on its own to pairs of intervals between 09:00 and *)
(* 11:30: disjoint, touching, intersecting by a minute, nested, identical, *)
(* empty.                                                                  *)

OverlapIntervals ==
    {[start |-> 10 * Hour, end |-> 10 * Hour + 30 * Minute],
     [start |-> 10 * Hour + 30 * Minute, end |-> 11 * Hour],
     [start |-> 10 * Hour + 29 * Minute, end |-> 10 * Hour + 31 * Minute],
     [start |-> 10 * Hour, end |-> 11 * Hour],
     [start |-> 10 * Hour + 15 * Minute, end |-> 10 * Hour + 45 * Minute],
     [start |-> 9 * Hour, end |-> 9 * Hour + 30 * Minute],
     [start |-> 11 * Hour, end |-> 11 * Hour + 30 * Minute],
     [start |-> 10 * Hour + 30 * Minute - 1, end |-> 10 * Hour + 30 * Minute + 1],
     [start |-> 10 * Hour + 30 * Minute, end |-> 10 * Hour + 30 * Minute]}

InitOverlap ==
    /\ now = 0
    /\ bookings = << >>
    /\ rules = << >>
    /\ availability_rules_id_seq = Len(rules)
    /\ req = [c \in Clients |-> Idle]
    /\ call \in {[fn |-> "slotsOverlap", slot1 |-> a, slot2 |-> b,
                  returned |-> FALSE, result |-> FALSE] :
                    a \in OverlapIntervals, b \in OverlapIntervals}

ApplySlotsOverlap ==
    /\ call.fn = "slotsOverlap" /\ ~call.returned
    /\ call' = [call EXCEPT !.returned = TRUE,
                            !.result = slotsOverlap(call.slot1, call.slot2)]
    /\ UNCHANGED <<now, bookings, rules, availability_rules_id_seq, req>>

NextOverlap == ApplySlotsOverlap

SpecOverlap == InitOverlap /\ [][NextOverlap]_vars

----------------------------------------------------------------------------
(* The conflict query of POST /book around a stored reservation: requests  *)
(* for one owner that are disjoint, touch at either end, intersect by one  *)
(* millisecond or by half an hour, are nested either way or identical.     *)

ConflictSlots ==
    {<<13 * Hour, 14 * Hour>>,
     <<12 * Hour, 13 * Hour>>,
     <<14 * Hour, 15 * Hour>>,
     <<12 * Hour, 13 * Hour + 1>>,
     <<14 * Hour - 1, 15 * Hour>>,
     <<12 * Hour + 30 * Minute, 13 * Hour + 30 * Minute>>,
     <<13 * Hour + 15 * Minute, 13 * Hour + 45 * Minute>>,
     <<12 * Hour, 15 * Hour>>,
     <<16 * Hour, 17 * Hour>>}

BookNear ==
    /\ Len(bookings) + Cardinality(InFlightBooks) < MaxBookings
    /\ \E c \in Clients, slot \in ConflictSlots :
            BookRequest(c, 1, "Ann", slot[1], slot[2])

NextConflict == BookNear \/ Insert

SpecConflict == Init /\ [][NextConflict]_vars

----------------------------------------------------------------------------
(* generateSlotsForDate applied on its own.  Day 4 (1970-01-05) and day 18 *)
(* are Mondays, day 5 is a Tuesday.  The rule lists are lists one owner    *)
(* can hold: a full Monday, a window that leaves a remainder, a window     *)
(* shorter than the interval, a Tuesday rule in a zone ahead of UTC.  The  *)
(* clock is set so that the lead time (Monday 08:00) or the horizon (noon  *)
(* 14 days before day 18) falls on a slot start.                           *)

GenDates == {4 * Day, 5 * Day, 18 * Day}

MondayFull == RuleRow(1, 1, 1, T0900, T1700, 30, "UTC")
MondayRemainder == RuleRow(2, 1, 1, T0900, T1000, 45, "UTC")
MondayShort == RuleRow(3, 1, 1, T0900, T0920, 30, "UTC")
TuesdayKolkata == RuleRow(4, 1, 2, T1000, T1700, 60, "Asia/Kolkata")

GenRules ==
    {<<MondayFull>>, <<MondayRemainder>>, <<MondayShort>>, <<TuesdayKolkata>>,
     <<MondayFull, TuesdayKolkata>>}

GenBooked ==
    {{},
     {BookedSlot(4 * Day + 10 * Hour, 4 * Day + 10 * Hour + 30 * Minute)},
     {BookedSlot(4 * Day + 10 * Hour + 15 * Minute, 4 * Day + 10 * Hour + 45 * Minute)},
     {BookedSlot(5 * Day + 4 * Hour + 30 * Minute, 5 * Day + 5 * Hour + 30 * Minute),
      BookedSlot(4 * Day + 16 * Hour + 30 * Minute, 4 * Day + 17 * Hour)},
     {BookedSlot(18 * Day + 9 * Hour, 18 * Day + 9 * Hour + 30 * Minute)}}

GenNows == {0, 4 * Day + 8 * Hour, 4 * Day + 12 * Hour}

InitGen ==
    /\ now \in GenNows
    /\ bookings = << >>
    /\ rules = << >>
    /\ availability_rules_id_seq = Len(rules)
    /\ req = [c \in Clients |-> Idle]
    /\ call \in {[fn |-> "generateSlotsForDate", date |-> date,
                  availabilityRules |-> availabilityRules,
                  bookedSlots |-> bookedSlots,
                  hostTimezone |-> availabilityRules[1].timezone,
                  returned |-> FALSE, result |-> << >>] :
                    date \in GenDates, availabilityRules \in GenRules,
                    bookedSlots \in GenBooked}

ApplyGenerateSlotsForDate ==
    /\ call.fn = "generateSlotsForDate" /\ ~call.returned
    /\ call' = [call EXCEPT !.returned = TRUE,
                            !.result = generateSlotsForDate(call.date,
                                            call.availabilityRules,
                                            call.bookedSlots, call.hostTimezone)]
    /\ UNCHANGED <<now, bookings, rules, availability_rules_id_seq, req>>

NextGen == ApplyGenerateSlotsForDate

SpecGen == InitGen /\ [][NextGen]_vars

----------------------------------------------------------------------------
(* The listing next to the bookings.  Owner 1 holds one Monday rule,       *)
(* either 20:00-23:00 UTC or 02:00-04:00 in Asia/Kolkata, whose slots lie  *)
(* on the Sunday evening in UTC; owner 2 holds none.  Reservations are     *)
(* booked for a listed slot or across midnight; owner 1 asks for the       *)
(* Monday alone, with the day before or after, or backwards, owner 2 for   *)
(* the Monday.                                                             *)

MondayEvening == RuleRow(1, 1, 1, T2000, T2300, 60, "UTC")
MondayEarlyKolkata == RuleRow(1, 1, 1, T0200, T0400, 60, "Asia/Kolkata")

SlotsRuleTables == {<<MondayEvening>>, <<MondayEarlyKolkata>>}

SlotsBookable ==
    {<<4 * Day + 20 * Hour, 4 * Day + 21 * Hour>>,
     <<4 * Day + 22 * Hour + 30 * Minute, 5 * Day + 30 * Minute>>,
     <<3 * Day + 20 * Hour + 30 * Minute, 3 * Day + 21 * Hour + 30 * Minute>>}

D19700104 == <<"1", "9", "7", "0", "-", "0", "1", "-", "0", "4">>
D19700105 == <<"1", "9", "7", "0", "-", "0", "1", "-", "0", "5">>
D19700106 == <<"1", "9", "7", "0", "-", "0", "1", "-", "0", "6">>

\* owner, from, to
SlotsQueries ==
    {<<1, D19700105, D19700105>>, <<1, D19700104, D19700105>>,
     <<1, D19700105, D19700106>>, <<1, D19700106, D19700105>>,
     <<2, D19700105, D19700105>>}

InitSlots ==
    /\ now = 0
    /\ bookings = << >>
    /\ rules \in SlotsRuleTables
    /\ availability_rules_id_seq = Len(rules)
    /\ req = [c \in Clients |-> Idle]
    /\ call = NoCall

BookListed ==
    /\ Len(bookings) + Cardinality(InFlightBooks) < MaxBookings
    /\ \E c \in Clients, slot \in SlotsBookable :
            BookRequest(c, 1, "Ann", slot[1], slot[2])

ListSlots ==
    \E c \in Clients, query \in SlotsQueries :
        SlotsRequest(c, query[1], query[2], query[3])

GenerateSlots == \E c \in Clients : SlotsGenerate(c)

NextSlots == BookListed \/ Insert \/ ListSlots \/ GenerateSlots

SpecSlots == InitSlots /\ [][NextSlots]_vars

----------------------------------------------------------------------------
(* The listing over date ranges.  Owner 1 holds a Monday rule 20:00-23:00  *)
(* UTC, alone or with a Tuesday rule 02:00-04:00 in Asia/Kolkata, whose    *)
(* slots lie between the Monday ones in UTC; owner 2 holds no rule.  The   *)
(* ranges have one date, two dates, 14, 15 and 16 dates, or run backwards. *)

TuesdayEarlyKolkata == RuleRow(2, 1, 2, T0200, T0400, 60, "Asia/Kolkata")

\* a Tuesday rule created before the Monday rule of another zone, and a
\* Monday rule in Asia/Kolkata followed by a Tuesday rule in UTC
TuesdayPhoenixFirst == RuleRow(1, 1, 2, T0900, T1000, 30, "America/Phoenix")
MondayKolkataSecond == RuleRow(2, 1, 1, T0200, T0400, 60, "Asia/Kolkata")
TuesdayEvening == RuleRow(2, 1, 2, T2000, T2300, 60, "UTC")

RangeRuleTables ==
    {<<MondayEvening>>, <<MondayEvening, TuesdayEarlyKolkata>>,
     <<TuesdayPhoenixFirst, MondayKolkataSecond>>,
     <<MondayEarlyKolkata, TuesdayEvening>>}

D19700101 == <<"1", "9", "7", "0", "-", "0", "1", "-", "0", "1">>
D19700114 == <<"1", "9", "7", "0", "-", "0", "1", "-", "1", "4">>
D19700115 == <<"1", "9", "7", "0", "-", "0", "1", "-", "1", "5">>
D19700116 == <<"1", "9", "7", "0", "-", "0", "1", "-", "1", "6">>

\* owner, from, to
RangeQueries ==
    {<<1, D19700105, D19700105>>, <<1, D19700105, D19700106>>,
     <<1, D19700106, D19700105>>, <<1, D19700101, D19700114>>,
     <<1, D19700101, D19700115>>, <<1, D19700101, D19700116>>,
     <<2, D19700105, D19700106>>}

\* Thursday 1 January 00:00 and Monday 5 January 19:00
RangeNows == {0, 4 * Day + 19 * Hour}

InitRange ==
    /\ now \in RangeNows
    /\ bookings = << >>
    /\ rules \in RangeRuleTables
    /\ availability_rules_id_seq = Len(rules)
    /\ req = [c \in Clients |-> Idle]
    /\ call = NoCall

ListRange ==
    \E c \in Clients, query \in RangeQueries :
        SlotsRequest(c, query[1], query[2], query[3])

NextRange == ListRange \/ GenerateSlots

SpecRange == InitRange /\ [][NextRange]_vars

----------------------------------------------------------------------------
(* Repeated listings against a store that changes around them.  Owner 1    *)
(* holds the Monday rule and no or one reservation; the rule, the          *)
(* reservations of owner 1 and the clock stay as they are, while owner 2   *)
(* books intervals that coincide with owner 1's slots and the clients      *)
(* list owner 1's slots before and after.                                  *)

RunsStoredRow ==
    [id |-> 1, user_id |-> 1, booking_id |-> "u1",
     cancel_code |-> <<"A", "1", "B", "2", "C", "3">>,
     name |-> "Ann", slot_start |-> 4 * Day + 21 * Hour,
     slot_end |-> 4 * Day + 22 * Hour, status |-> Confirmed, created_at |-> 0]

RunsBookable ==
    {<<4 * Day + 20 * Hour, 4 * Day + 21 * Hour>>,
     <<4 * Day + 21 * Hour, 4 * Day + 22 * Hour>>}

\* owner, from, to
RunsQueries == {<<1, D19700105, D19700105>>, <<1, D19700104, D19700106>>}

InitRuns ==
    /\ now = 0
    /\ bookings \in {<< >>, <<RunsStoredRow>>}
    /\ rules = <<MondayEvening>>
    /\ availability_rules_id_seq = Len(rules)
    /\ req = [c \in Clients |-> Idle]
    /\ call = NoCall

BookOther ==
    /\ Len(bookings) + Cardinality(InFlightBooks) < MaxBookings
    /\ \E c \in Clients, slot \in RunsBookable :
            BookRequest(c, 2, "Ann", slot[1], slot[2])

ListRuns ==
    \E c \in Clients, query \in RunsQueries :
        SlotsRequest(c, query[1], query[2], query[3])

NextRuns == BookOther \/ Insert \/ ListRuns \/ GenerateSlots

SpecRuns == InitRuns /\ [][NextRuns]_vars

----------------------------------------------------------------------------
(* Cancel requests against one stored reservation, with its identifier or  *)
(* an unknown one and with its code, its code in lower case or another     *)
(* code.                                                                   *)

CancelCodeInputs ==
    CancelCodes \union {<<"a", "1", "b", "2", "c", "3">>}

InitCode ==
    /\ now = 0
    /\ bookings = <<RunsStoredRow>>
    /\ rules = <<MondayEvening>>
    /\ availability_rules_id_seq = Len(rules)
    /\ req = [c \in Clients |-> Idle]
    /\ call = NoCall

CancelWithCode ==
    \E c \in Clients, bookingId \in Uuids, cancelCode \in CancelCodeInputs :
        CancelRequest(c, bookingId, cancelCode)

NextCode == CancelWithCode \/ Update

SpecCode == InitCode /\ [][NextCode]_vars

----------------------------------------------------------------------------
(* Books close to the lead time while the clock advances between the       *)
(* validation of a request and its INSERT: intervals that start 2h30 and   *)
(* 13h after instant 0, and intervals that fail the lead time, the         *)
(* horizon, either duration bound, or end before they start.               *)

SoonSlots ==
    {<<2 * Hour + 30 * Minute, 3 * Hour + 30 * Minute>>,
     <<13 * Hour, 14 * Hour>>,
     <<13 * Hour, 13 * Hour + 15 * Minute>>,
     <<13 * Hour, 21 * Hour>>,
     <<1 * Hour, 2 * Hour>>,
     <<14 * Day + 1 * Hour, 14 * Day + 2 * Hour>>,
     <<13 * Hour, 13 * Hour + 10 * Minute>>,
     <<13 * Hour, 21 * Hour + 1 * Minute>>,
     <<14 * Hour, 13 * Hour>>}

BookSoon ==
    /\ Len(bookings) + Cardinality(InFlightBooks) < MaxBookings
    /\ \E c \in Clients, slot \in SoonSlots :
            BookRequest(c, 1, "Ann", slot[1], slot[2])

NextSoon == BookSoon \/ Insert \/ Tick

SpecSoon == Init /\ [][NextSoon]_vars

----------------------------------------------------------------------------
(* Booking again after cancellations.  The store begins with a cancelled   *)
(* reservation of owner 1 for Thursday 13:00-14:00; owner 1 books that     *)
(* interval, one that overlaps it and one that follows it, and the         *)
(* reservations are cancelled and booked again.                            *)

MaxRebookings == 3

RebookCancelledRow ==
    [id |-> 1, user_id |-> 1, booking_id |-> "u0",
     cancel_code |-> <<"A", "1", "B", "2", "C", "3">>,
     name |-> "Ann", slot_start |-> 13 * Hour, slot_end |-> 14 * Hour,
     status |-> Cancelled, created_at |-> 0]

RebookSlots ==
    {<<13 * Hour, 14 * Hour>>,
     <<13 * Hour + 30 * Minute, 14 * Hour + 30 * Minute>>,
     <<14 * Hour, 15 * Hour>>}

InitRebook ==
    /\ now = 0
    /\ bookings = <<RebookCancelledRow>>
    /\ rules = CancelRules
    /\ availability_rules_id_seq = Len(rules)
    /\ req = [c \in Clients |-> Idle]
    /\ call = NoCall

BookAgain ==
    /\ Len(bookings) + Cardinality(InFlightBooks) < MaxRebookings
    /\ \E c \in Clients, slot \in RebookSlots :
            BookRequest(c, 1, "Ann", slot[1], slot[2])

NextRebook == BookAgain \/ Insert \/ Cancel \/ Update

SpecRebook == InitRebook /\ [][NextRebook]_vars

----------------------------------------------------------------------------
(* The two loops of the slot generation, one iteration per step: the while *)
(* loop of generateSlotsForDate for one rule on a date of its weekday, and *)
(* the while loop of generateDateRange for an accepted range.  The rules   *)
(* have intervals of 15, 30, 45, 60 and 480 minutes.                       *)

MondayQuarters == RuleRow(5, 1, 1, T0900, T1700, 15, "UTC")
MondayWhole == RuleRow(6, 1, 1, T0900, T1700, 480, "UTC")

LoopRules ==
    {MondayFull, MondayRemainder, MondayShort, TuesdayKolkata,
     MondayQuarters, MondayWhole}

LoopDates == {4 * Day, 5 * Day, 11 * Day, 12 * Day}

InitLoops ==
    /\ now = 0
    /\ bookings = << >>
    /\ rules = << >>
    /\ availability_rules_id_seq = Len(rules)
    /\ req = [c \in Clients |-> Idle]
    /\ call \in
        {[fn |-> "generateSlotsForDate",
          currentSlot |-> timeStringToUTC(e[1].start_time, e[2], e[1].timezone),
          slotEnd |-> timeStringToUTC(e[1].end_time, e[2], e[1].timezone),
          interval_minutes |-> e[1].interval_minutes,
          slots |-> << >>, returned |-> FALSE] :
            e \in {p \in LoopRules \X LoopDates : getDay(p[2]) = p[1].day_of_week}}
        \union
        {[fn |-> "generateDateRange",
          currentDate |-> startOfDay(validateDateRange(query[2], query[3]).from),
          endDate |-> startOfDay(validateDateRange(query[2], query[3]).to),
          dates |-> << >>, returned |-> FALSE] :
            query \in {q \in RangeQueries : validateDateRangeError(q[2], q[3]) = NoError}}

\* a while loop that pushes a slot and leaves the cursor where it is
SlotsLoopStep_noAdvance ==
    /\ call.fn = "generateSlotsForDate" /\ ~call.returned
    /\ LET slotEndTime == addMinutes(call.currentSlot, call.interval_minutes)
       IN  call' =
            IF ~isBefore(call.currentSlot, call.slotEnd) \/ isAfter(slotEndTime, call.slotEnd)
            THEN [call EXCEPT !.returned = TRUE]
            ELSE [call EXCEPT !.slots = Append(@, [start |-> call.currentSlot,
                                                   end |-> slotEndTime])]
    /\ UNCHANGED <<now, bookings, rules, availability_rules_id_seq, req>>

\* one test of the while condition of generateSlotsForDate and, when it
\* holds, one pass through the body: the break, or the push and the advance
SlotsLoopStep ==
    /\ call.fn = "generateSlotsForDate" /\ ~call.returned
    /\ LET slotEndTime == addMinutes(call.currentSlot, call.interval_minutes)
       IN  call' =
            IF ~isBefore(call.currentSlot, call.slotEnd) \/ isAfter(slotEndTime, call.slotEnd)
            THEN [call EXCEPT !.returned = TRUE]
            ELSE [call EXCEPT !.slots = Append(@, [start |-> call.currentSlot,
                                                   end |-> slotEndTime]),
                              !.currentSlot = slotEndTime]
    /\ UNCHANGED <<now, bookings, rules, availability_rules_id_seq, req>>

\* one test of the while condition of generateDateRange and, when it holds,
\* the push and addDays(currentDate, 1)
DatesLoopStep ==
    /\ call.fn = "generateDateRange" /\ ~call.returned
    /\ call' =
        IF isAfter(call.currentDate, call.endDate)
        THEN [call EXCEPT !.returned = TRUE]
        ELSE [call EXCEPT !.dates = Append(@, call.currentDate),
                          !.currentDate = addDays(call.currentDate, 1)]
    /\ UNCHANGED <<now, bookings, rules, availability_rules_id_seq, req>>

NextLoops == SlotsLoopStep \/ DatesLoopStep

\* a loop that is running takes its next iteration: the function runs to
\* completion on the single thread
SpecLoops == InitLoops /\ [][NextLoops]_vars /\ WF_vars(NextLoops)

----------------------------------------------------------------------------
(* Availability rules: POST /availability and DELETE /availability/:id     *)
(* over the availability_rules table.  Each handler is two steps, its      *)
(* SELECT with the checks before it and its INSERT or DELETE with the      *)
(* response.                                                               *)

MsgValidation == <<"Validation", "error">>
MsgRuleEndBeforeStart == <<"End", "time", "must", "be", "after", "start", "time">>
MsgRuleExists ==
    <<"Availability", "rule", "already", "exists", "for", "this", "day.",
      "Delete", "the", "existing", "rule", "first.">>
MsgInvalidRuleId == <<"Invalid", "availability", "rule", "ID">>
MsgRuleNotFound == <<"Availability", "rule", "not", "found">>

\* the regex of startTime and endTime: ^([01]?[0-9]|2[0-3]):[0-5][0-9]$
matchesTime(string) ==
    LET parts == split(string, ":")
    IN  /\ Len(parts) = 2
        /\ \/ Len(parts[1]) = 1 /\ isDigit(parts[1][1])
           \/ /\ Len(parts[1]) = 2
              /\ \/ parts[1][1] \in {"0", "1"} /\ isDigit(parts[1][2])
                 \/ parts[1][1] = "2" /\ parts[1][2] \in {"0", "1", "2", "3"}
        /\ Len(parts[2]) = 2
        /\ parts[2][1] \in {"0", "1", "2", "3", "4", "5"}
        /\ isDigit(parts[2][2])

\* availabilitySchema.parse returns (TRUE) or throws a ZodError (FALSE)
availabilitySchema(body) ==
    /\ body.dayOfWeek >= 0 /\ body.dayOfWeek <= 6
    /\ matchesTime(body.startTime)
    /\ matchesTime(body.endTime)
    /\ body.intervalMin >= 15 /\ body.intervalMin <= 480
    /\ body.timeZone # ""

\* new Date(`2000-01-01T${time}:00`) for a time the regex accepts.  With a
\* two-digit hour the string is an ISO date-time and denotes that local
\* time; with a one-digit hour it is not, and the engine's fallback parser
\* either reads it all the same or yields an Invalid Date.  The two Dates
\* of the handler lie on the same day and are only compared with each
\* other, so a Date is given by its milliseconds after the local midnight
\* of 1 January 2000
newDate(time) ==
    LET parts == split(time, ":")
        value == parseInt(parts[1]) * Hour + parseInt(parts[2]) * Minute
    IN  IF Len(parts[1]) = 2
        THEN {[valid |-> TRUE, time |-> value]}
        ELSE {[valid |-> TRUE, time |-> value], [valid |-> FALSE, time |-> 0]}

\* end <= start on two Dates: false as soon as one of them is invalid (NaN)
lessOrEqual(end, start) == end.valid /\ start.valid /\ end.time <= start.time

\* the TIME column value an "H:MM" or "HH:MM" parameter is stored as, in the
\* text form the driver returns it: "HH:MM:SS"
timeColumn(time) ==
    LET parts == split(time, ":")
        hours == parseInt(parts[1])
        minutes == parseInt(parts[2])
    IN  <<digitChar(hours \div 10), digitChar(hours % 10), ":",
          digitChar(minutes \div 10), digitChar(minutes % 10), ":", "0", "0">>

\* SELECT id FROM availability_rules WHERE user_id = $1 AND day_of_week = $2
existingRule(user, dayOfWeek) ==
    {i \in 1..Len(rules) : rules[i].user_id = user /\ rules[i].day_of_week = dayOfWeek}

\* an availability_rules table without UNIQUE(user_id, day_of_week)
ruleInsertError_noUnique(row) ==
    IF ~(row.day_of_week >= 0 /\ row.day_of_week <= 6) THEN MsgCheckViolation
    ELSE IF ~(row.interval_minutes >= 15 /\ row.interval_minutes <= 480)
    THEN MsgCheckViolation
    ELSE IF ~(timeOfDay(row.end_time) > timeOfDay(row.start_time)) THEN MsgCheckViolation
    ELSE NoError

\* an availability_rules table without CHECK (end_time > start_time)
ruleInsertError_noTimeCheck(row) ==
    IF ~(row.day_of_week >= 0 /\ row.day_of_week <= 6) THEN MsgCheckViolation
    ELSE IF ~(row.interval_minutes >= 15 /\ row.interval_minutes <= 480)
    THEN MsgCheckViolation
    ELSE IF existingRule(row.user_id, row.day_of_week) # {} THEN MsgDuplicateKey
    ELSE NoError

\* the error an INSERT into availability_rules raises, NoError when the row
\* is accepted: the CHECK constraints, then UNIQUE(user_id, day_of_week)
ruleInsertError(row) ==
    IF ~(row.day_of_week >= 0 /\ row.day_of_week <= 6) THEN MsgCheckViolation
    ELSE IF ~(row.interval_minutes >= 15 /\ row.interval_minutes <= 480)
    THEN MsgCheckViolation
    ELSE IF ~(timeOfDay(row.end_time) > timeOfDay(row.start_time)) THEN MsgCheckViolation
    ELSE IF existingRule(row.user_id, row.day_of_week) # {} THEN MsgDuplicateKey
    ELSE NoError

\* the catch block of POST /availability for what the INSERT throws
availabilityCatch(message) == Response(500, MsgInternal)

\* POST /availability up to the 409 check: the schema, the comparison of the
\* two times, the existence SELECT
CreateRuleRequest(c, user, body) ==
    /\ Free(c)
    /\ LET r == [Idle EXCEPT !.op = "createRule", !.user = user, !.body = body]
       IN  IF ~availabilitySchema(body)
           THEN req' = [req EXCEPT ![c] =
                            [r EXCEPT !.pc = "done", !.res = Response(400, MsgValidation)]]
           ELSE \E start \in newDate(body.startTime), end \in newDate(body.endTime) :
                    req' = [req EXCEPT ![c] =
                        IF lessOrEqual(end, start)
                        THEN [r EXCEPT !.pc = "done",
                                       !.res = Response(400, MsgRuleEndBeforeStart)]
                        ELSE IF existingRule(user, body.dayOfWeek) # {}
                        THEN [r EXCEPT !.pc = "done", !.res = Response(409, MsgRuleExists)]
                        ELSE [r EXCEPT !.pc = "insert"]]
    /\ UNCHANGED <<now, bookings, rules, availability_rules_id_seq, call>>

\* POST /availability from the INSERT on: the id drawn from the sequence
\* (drawn also when the INSERT fails), the 201 response, or the catch block
CreateRuleInsert(c) ==
    /\ req[c].op = "createRule" /\ req[c].pc = "insert"
    /\ availability_rules_id_seq' = availability_rules_id_seq + 1
    /\ LET row == RuleRow(availability_rules_id_seq + 1, req[c].user,
                          req[c].body.dayOfWeek, timeColumn(req[c].body.startTime),
                          timeColumn(req[c].body.endTime), req[c].body.intervalMin,
                          req[c].body.timeZone)
           error == ruleInsertError(row)
       IN  IF error # NoError
           THEN /\ req' = [req EXCEPT ![c].pc = "done", ![c].res = availabilityCatch(error)]
                /\ UNCHANGED rules
           ELSE /\ rules' = Append(rules, row)
                /\ req' = [req EXCEPT ![c].pc = "done", ![c].row = row.id,
                                      ![c].res = Response(201, NoError)]
    /\ UNCHANGED <<now, bookings, call>>

\* parseInt(req.params?.id || '0')
ruleIdParam(id) == IF id = << >> THEN <<"0">> ELSE id

\* isNaN(parseInt(string))
isNaN(string) == string = << >> \/ ~isDigit(Head(string))

\* a SELECT by id alone
ownedRule_anyOwner(ruleId, user) == {i \in 1..Len(rules) : rules[i].id = ruleId}

\* SELECT id FROM availability_rules WHERE id = $1 AND user_id = $2
ownedRule(ruleId, user) ==
    {i \in 1..Len(rules) : rules[i].id = ruleId /\ rules[i].user_id = user}

\* DELETE /availability/:id up to the 404 check
DeleteRuleRequest(c, user, id) ==
    /\ Free(c)
    /\ LET r == [Idle EXCEPT !.op = "deleteRule", !.user = user, !.id = id]
       IN  req' = [req EXCEPT ![c] =
                IF isNaN(ruleIdParam(id))
                THEN [r EXCEPT !.pc = "done", !.res = Response(400, MsgInvalidRuleId)]
                ELSE IF ownedRule(parseInt(ruleIdParam(id)), user) = {}
                THEN [r EXCEPT !.pc = "done", !.res = Response(404, MsgRuleNotFound)]
                ELSE [r EXCEPT !.pc = "delete"]]
    /\ UNCHANGED <<now, bookings, rules, availability_rules_id_seq, call>>

\* a DELETE that also cancels the reservations of the rule's owner
DeleteRuleDelete_cancelsReservations(c) ==
    /\ req[c].op = "deleteRule" /\ req[c].pc = "delete"
    /\ rules' = SelectSeq(rules,
                    LAMBDA rule : ~(/\ rule.id = parseInt(ruleIdParam(req[c].id))
                                    /\ rule.user_id = req[c].user))
    /\ bookings' = [i \in Rows |->
                        IF bookings[i].user_id = req[c].user
                        THEN [bookings[i] EXCEPT !.status = Cancelled]
                        ELSE bookings[i]]
    /\ req' = [req EXCEPT ![c].pc = "done", ![c].res = Response(200, NoError)]
    /\ UNCHANGED <<now, availability_rules_id_seq, call>>

\* DELETE /availability/:id from the DELETE on
DeleteRuleDelete(c) ==
    /\ req[c].op = "deleteRule" /\ req[c].pc = "delete"
    /\ rules' = SelectSeq(rules,
                    LAMBDA rule : ~(/\ rule.id = parseInt(ruleIdParam(req[c].id))
                                    /\ rule.user_id = req[c].user))
    /\ req' = [req EXCEPT ![c].pc = "done", ![c].res = Response(200, NoError)]
    /\ UNCHANGED <<now, bookings, availability_rules_id_seq, call>>

HM0800 == <<"0", "8", ":", "0", "0">>
HM0900 == <<"0", "9", ":", "0", "0">>
HM1000 == <<"1", "0", ":", "0", "0">>
HM1200 == <<"1", "2", ":", "0", "0">>
HM1700 == <<"1", "7", ":", "0", "0">>
HM2500 == <<"2", "5", ":", "0", "0">>
H900 == <<"9", ":", "0", "0">>

RuleBody(dayOfWeek, startTime, endTime, intervalMin, timeZone) ==
    [dayOfWeek |-> dayOfWeek, startTime |-> startTime, endTime |-> endTime,
     intervalMin |-> intervalMin, timeZone |-> timeZone]

MondayBody == RuleBody(1, HM0900, HM1700, 30, "UTC")
MondayOtherBody == RuleBody(1, HM1000, HM1200, 60, "Asia/Kolkata")
TuesdayBody == RuleBody(2, HM0900, HM1700, 30, "UTC")

\* owner and body: owner 1 creates either Monday rule or the Tuesday rule,
\* owner 2 the first Monday rule
RuleRequests ==
    {<<1, MondayBody>>, <<1, MondayOtherBody>>, <<1, TuesdayBody>>, <<2, MondayBody>>}

\* owner and :id
DeleteRequests == {<<1, <<"1">>>>, <<1, <<"2">>>>, <<2, <<"1">>>>, <<2, <<"x">>>>}

InFlightCreates == {c \in Clients : req[c].op = "createRule" /\ req[c].pc = "insert"}

CreateRule ==
    /\ availability_rules_id_seq + Cardinality(InFlightCreates) < MaxRuleId
    /\ \E c \in Clients, request \in RuleRequests :
            CreateRuleRequest(c, request[1], request[2])

InsertRule == \E c \in Clients : CreateRuleInsert(c)

DeleteRule ==
    \E c \in Clients, request \in DeleteRequests :
        DeleteRuleRequest(c, request[1], request[2])

RemoveRule == \E c \in Clients : DeleteRuleDelete(c)

NextRules == CreateRule \/ InsertRule \/ DeleteRule \/ RemoveRule

SpecRules == Init /\ [][NextRules]_vars

----------------------------------------------------------------------------
(* Two owners side by side: both create and delete rules and both book the *)
(* first Monday slot of the 09:00-17:00 rule; owner 1 lists the Monday.    *)

OwnersSlots == {<<4 * Day + 9 * Hour, 4 * Day + 9 * Hour + 30 * Minute>>}

OwnersQueries == {<<1, D19700105, D19700105>>}

BookOwners ==
    /\ Len(bookings) + Cardinality(InFlightBooks) < MaxBookings
    /\ \E c \in Clients, user \in Owners, slot \in OwnersSlots :
            BookRequest(c, user, "Ann", slot[1], slot[2])

ListOwners ==
    \E c \in Clients, query \in OwnersQueries :
        SlotsRequest(c, query[1], query[2], query[3])

\* owner and body; owner and :id
OwnersRuleRequests == {<<1, MondayBody>>, <<2, MondayBody>>}
OwnersDeleteRequests == {<<1, <<"1">>>>, <<2, <<"1">>>>}

CreateOwnersRule ==
    /\ availability_rules_id_seq + Cardinality(InFlightCreates) < MaxRuleId
    /\ \E c \in Clients, request \in OwnersRuleRequests :
            CreateRuleRequest(c, request[1], request[2])

DeleteOwnersRule ==
    \E c \in Clients, request \in OwnersDeleteRequests :
        DeleteRuleRequest(c, request[1], request[2])

NextOwners ==
    \/ BookOwners \/ Insert \/ ListOwners \/ GenerateSlots
    \/ CreateOwnersRule \/ InsertRule \/ DeleteOwnersRule \/ RemoveRule

SpecOwners == Init /\ [][NextOwners]_vars

----------------------------------------------------------------------------
(* Rules that come and go under a reservation: owner 1 creates and deletes *)
(* the Monday rule 10:00-12:00 Asia/Kolkata, books its first slot (Monday  *)
(* 04:30Z-05:30Z) with or without the rule, cancels and lists the Monday.  *)

FrameSlots == {<<4 * Day + 4 * Hour + 30 * Minute, 4 * Day + 5 * Hour + 30 * Minute>>}

\* owner and body; owner and :id
FrameRuleRequests == {<<1, MondayOtherBody>>}
FrameDeleteRequests == {<<1, <<"1">>>>, <<1, <<"2">>>>}

BookFrame ==
    /\ Len(bookings) + Cardinality(InFlightBooks) < MaxBookings
    /\ \E c \in Clients, slot \in FrameSlots :
            BookRequest(c, 1, "Ann", slot[1], slot[2])

CreateFrameRule ==
    /\ availability_rules_id_seq + Cardinality(InFlightCreates) < MaxRuleId
    /\ \E c \in Clients, request \in FrameRuleRequests :
            CreateRuleRequest(c, request[1], request[2])

DeleteFrameRule ==
    \E c \in Clients, request \in FrameDeleteRequests :
        DeleteRuleRequest(c, request[1], request[2])

NextFrame ==
    \/ BookFrame \/ Insert \/ Cancel \/ Update \/ ListOwners \/ GenerateSlots
    \/ CreateFrameRule \/ InsertRule \/ DeleteFrameRule \/ RemoveRule

SpecFrame == Init /\ [][NextFrame]_vars

----------------------------------------------------------------------------
(* The bodies POST /availability is sent by one owner: the valid Monday    *)
(* rule; an end before the start, equal to it, and before a start with a   *)
(* one-digit hour; weekday 7, intervals of 10 and 500 minutes, hour 25.    *)

RuleBodies ==
    {MondayBody,
     RuleBody(2, HM1000, HM1200, 15, "UTC"),
     RuleBody(0, HM0800, HM1700, 480, "UTC"),
     RuleBody(1, HM1700, HM0900, 30, "UTC"),
     RuleBody(1, HM0900, HM0900, 30, "UTC"),
     RuleBody(1, H900, HM0800, 30, "UTC"),
     RuleBody(7, HM0900, HM1700, 30, "UTC"),
     RuleBody(1, HM0900, HM1700, 10, "UTC"),
     RuleBody(1, HM0900, HM1700, 500, "UTC"),
     RuleBody(1, HM2500, HM1700, 30, "UTC")}

CreateAnyRule ==
    /\ availability_rules_id_seq + Cardinality(InFlightCreates) < MaxRuleId
    /\ \E c \in Clients, body \in RuleBodies : CreateRuleRequest(c, 1, body)

NextRuleBodies == CreateAnyRule \/ InsertRule

SpecRuleBodies == Init /\ [][NextRuleBodies]_vars

----------------------------------------------------------------------------
(* Vocabulary of the properties.  The thresholds are written out here,     *)
(* independently of the definitions above.                                 *)

\* [s1, e1) and [s2, e2) overlap
Overlap(s1, e1, s2, e2) == s1 < e2 /\ e1 > s2

LeadTimeMet(slotStart) == slotStart > now + 2 * 3600000
HorizonMet(slotStart) == slotStart < now + 14 * 86400000
NoticeMet(slotStart) == slotStart > now + 12 * 3600000
DurationValid(slotStart, slotEnd) ==
    /\ slotEnd > slotStart
    /\ slotEnd - slotStart >= 15 * 60000
    /\ slotEnd - slotStart <= 480 * 60000
PolicyValid(slotStart, slotEnd) ==
    LeadTimeMet(slotStart) /\ HorizonMet(slotStart) /\ DurationValid(slotStart, slotEnd)

ConfirmedIn(table, user) ==
    {i \in 1..Len(table) : table[i].user_id = user /\ table[i].status = Confirmed}
ConfirmedRows(user) == ConfirmedIn(bookings, user)

RowsWithId(bookingId) == {i \in Rows : bookings[i].booking_id = bookingId}

\* weekday of the UTC day an instant lies in (0 = Sunday; day 0 is a Thursday)
Weekday(instant) == ((instant \div 86400000) + 4) % 7

\* minutes after midnight shown by an "HH:MM..." string
ClockMinutes(t) ==
    (digitValue(t[1]) * 10 + digitValue(t[2])) * 60 + digitValue(t[4]) * 10 + digitValue(t[5])

\* the instant at which the zone of the rule shows the clock time t on the
\* calendar day that begins, in UTC, at the instant day
Resolved(day, t, timezone) == day + (ClockMinutes(t) - tzOffsetMinutes(timezone)) * 60000

\* the k-th interval (from 1) of a rule on a day
KthStart(day, rule, k) ==
    Resolved(day, rule.start_time, rule.timezone) + (k - 1) * rule.interval_minutes * 60000
KthEnd(day, rule, k) ==
    Resolved(day, rule.start_time, rule.timezone) + k * rule.interval_minutes * 60000

\* floor((end - start) / interval)
WholeIntervals(day, rule) ==
    (Resolved(day, rule.end_time, rule.timezone)
        - Resolved(day, rule.start_time, rule.timezone)) \div (rule.interval_minutes * 60000)

\* the steps of the handlers, as seen on the request of client c
BookStep(c) == Free(c) /\ req'[c] # req[c] /\ req'[c].op = "book"
InsertStep(c) == req[c].op = "book" /\ req[c].pc = "insert" /\ req'[c].pc = "done"
CancelStep(c) == Free(c) /\ req'[c] # req[c] /\ req'[c].op = "cancel"
UpdateStep(c) == req[c].op = "cancel" /\ req[c].pc = "update" /\ req'[c].pc = "done"

\* the steps of the rule handlers, as seen on the request of client c
CreateRuleStep(c) == Free(c) /\ req'[c] # req[c] /\ req'[c].op = "createRule"
RuleInsertStep(c) == req[c].op = "createRule" /\ req[c].pc = "insert" /\ req'[c].pc = "done"
DeleteRuleStep(c) == Free(c) /\ req'[c] # req[c] /\ req'[c].op = "deleteRule"
RuleDeleteStep(c) == req[c].op = "deleteRule" /\ req[c].pc = "delete" /\ req'[c].pc = "done"

\* the rules of an owner for a weekday, in a table
RulesOf(table, user, weekday) ==
    {i \in 1..Len(table) : table[i].user_id = user /\ table[i].day_of_week = weekday}

\* minutes after midnight shown by an "H:MM" or "HH:MM" string
BodyMinutes(t) ==
    IF Len(t) = 4
    THEN digitValue(t[1]) * 60 + digitValue(t[3]) * 10 + digitValue(t[4])
    ELSE (digitValue(t[1]) * 10 + digitValue(t[2])) * 60
            + digitValue(t[4]) * 10 + digitValue(t[5])

\* the body asks for a weekday outside 0..6, an end that is not after the
\* start, or an interval outside [15, 480] minutes
BodyViolates(body) ==
    \/ body.dayOfWeek < 0 \/ body.dayOfWeek > 6
    \/ BodyMinutes(body.endTime) <= BodyMinutes(body.startTime)
    \/ body.intervalMin < 15 \/ body.intervalMin > 480

GenerateStep(c) == req[c].op = "slots" /\ req[c].pc = "bookings" /\ req'[c].pc = "done"

\* the instant a "1970-01-DD" string's day begins in UTC
JanuaryDay(dateString) ==
    (digitValue(dateString[9]) * 10 + digitValue(dateString[10]) - 1) * 86400000

\* the instant at which a UTC clock shows a "yyyy-MM-dd HH:mm:ss" string
WallClock(s) ==
    daysFromCivil(digitValue(s[1]) * 1000 + digitValue(s[2]) * 100
                    + digitValue(s[3]) * 10 + digitValue(s[4]),
                  digitValue(s[6]) * 10 + digitValue(s[7]),
                  digitValue(s[9]) * 10 + digitValue(s[10])) * 86400000
        + (digitValue(s[12]) * 10 + digitValue(s[13])) * 3600000
        + (digitValue(s[15]) * 10 + digitValue(s[16])) * 60000
        + (digitValue(s[18]) * 10 + digitValue(s[19])) * 1000

\* the rules of an owner that no other rule of the owner precedes in the
\* order by weekday, then start time
FirstRules(user) ==
    {i \in 1..Len(rules) :
        /\ rules[i].user_id = user
        /\ \A j \in 1..Len(rules) :
            (j # i /\ rules[j].user_id = user) =>
                \/ rules[i].day_of_week < rules[j].day_of_week
                \/ /\ rules[i].day_of_week = rules[j].day_of_week
                   /\ ClockMinutes(rules[i].start_time) < ClockMinutes(rules[j].start_time)}

Rejected(r) == r.pc = "done" /\ r.res.status \notin {200, 201}

----------------------------------------------------------------------------
\* C1: in every reachable state no two confirmed reservations of the same
\* owner overlap (half-open intervals).
NoConfirmedOverlap ==
    \A i, j \in Rows :
        (/\ i # j
         /\ bookings[i].status = Confirmed /\ bookings[j].status = Confirmed
         /\ bookings[i].user_id = bookings[j].user_id)
        => ~Overlap(bookings[i].slot_start, bookings[i].slot_end,
                    bookings[j].slot_start, bookings[j].slot_end)

\* C2: a book request that passed its overlap query and reaches its insert
\* when a confirmed reservation of the same owner overlapping its interval has
\* been committed meanwhile (the loser of the race) is answered 409
\* SlotAlreadyBooked and writes nothing.
RaceLoserGetsConflict ==
    [][\A c \in Clients :
        (/\ InsertStep(c)
         /\ \E i \in ConfirmedRows(req[c].user) :
                Overlap(req[c].slotStart, req[c].slotEnd,
                        bookings[i].slot_start, bookings[i].slot_end))
        => /\ req'[c].res = Response(409, MsgAlreadyBooked)
           /\ bookings' = bookings]_vars

\* C3: a policy-valid book for an owner who already holds a confirmed
\* reservation of the identical interval is answered 409 SlotAlreadyBooked at
\* once and writes no row: the owner's confirmed reservations are unchanged.
SecondIdenticalBookRejected ==
    [][\A c \in Clients :
        (/\ BookStep(c)
         /\ PolicyValid(req'[c].slotStart, req'[c].slotEnd)
         /\ \E i \in ConfirmedRows(req'[c].user) :
                /\ bookings[i].slot_start = req'[c].slotStart
                /\ bookings[i].slot_end = req'[c].slotEnd)
        => /\ req'[c].pc = "done"
           /\ req'[c].res = Response(409, MsgAlreadyBooked)
           /\ bookings' = bookings
           /\ ConfirmedIn(bookings', req'[c].user) = ConfirmedIn(bookings, req'[c].user)]_vars

SecondIdenticalBookRejectedWitness ==
    \E c \in Clients :
        /\ req[c].op = "book" /\ req[c].pc = "done"
        /\ req[c].res = Response(409, MsgAlreadyBooked)
        /\ Cardinality(ConfirmedRows(req[c].user)) = 1
        /\ \E i \in ConfirmedRows(req[c].user) :
                /\ bookings[i].slot_start = req[c].slotStart
                /\ bookings[i].slot_end = req[c].slotEnd

CancelTwiceInSequence ==
    [][\A c \in Clients :
        /\ CancelStep(c) =>
            \A i \in RowsWithId(req'[c].bookingId) :
                bookings[i].cancel_code = req'[c].cancelCode =>
                    /\ bookings[i].status = Cancelled =>
                        /\ req'[c].pc = "done"
                        /\ req'[c].res = Response(400, MsgAlreadyCancelled)
                        /\ bookings'[i].status = Cancelled
                    /\ (bookings[i].status = Confirmed /\ NoticeMet(bookings[i].slot_start)) =>
                        /\ req'[c].pc = "update"
                        /\ req'[c].row = i
        /\ UpdateStep(c) =>
            /\ req'[c].res = Response(200, << >>)
            /\ bookings'[req[c].row].status = Cancelled]_vars

CancelTwiceInSequenceWitness ==
    \E c1, c2 \in Clients, i \in Rows :
        /\ c1 # c2
        /\ bookings[i].status = Cancelled
        /\ req[c1].op = "cancel" /\ req[c1].pc = "done"
        /\ req[c1].res.status = 200 /\ req[c1].row = i
        /\ req[c2].op = "cancel" /\ req[c2].pc = "done"
        /\ req[c2].bookingId = bookings[i].booking_id
        /\ req[c2].cancelCode = bookings[i].cancel_code
        /\ req[c2].res = Response(400, MsgAlreadyCancelled)

\* C6: the confirmed -> cancelled transition of a reservation is reported as
\* a success to one cancel request only: no two cancel requests are both
\* answered success for the same reservation.
CancelSucceedsOnce ==
    \A c1, c2 \in Clients :
        (/\ c1 # c2
         /\ req[c1].op = "cancel" /\ req[c1].pc = "done" /\ req[c1].res.status = 200
         /\ req[c2].op = "cancel" /\ req[c2].pc = "done" /\ req[c2].res.status = 200)
        => req[c1].row # req[c2].row

\* C7: a book request that fails the lead time, the horizon or the duration
\* bounds is answered 400 with the message of a rule it fails, never the
\* generic internal error.
PolicyViolationReported ==
    [][\A c \in Clients :
        (BookStep(c) /\ ~PolicyValid(req'[c].slotStart, req'[c].slotEnd))
        => /\ req'[c].pc = "done"
           /\ req'[c].res.status = 400
           /\ req'[c].res.error \in
                (IF LeadTimeMet(req'[c].slotStart) THEN {} ELSE {MsgLeadTime})
                \cup (IF HorizonMet(req'[c].slotStart) THEN {} ELSE {MsgHorizon})
                \cup (IF DurationValid(req'[c].slotStart, req'[c].slotEnd) THEN {}
                      ELSE {MsgTooShort, MsgTooLong, MsgEndBeforeStart})]_vars

\* C8: a step that ends a request with a rejection (any answer other than
\* 200 or 201) leaves the bookings table unchanged.
RejectionChangesNothing ==
    [][\A c \in Clients :
        (req'[c] # req[c] /\ Rejected(req'[c])) => bookings' = bookings]_vars

RejectionChangesNothingWitness ==
    \E c1, c2 \in Clients, i \in Rows :
        /\ req[c1].op = "cancel" /\ req[c1].pc = "done"
        /\ req[c1].res = Response(400, MsgTooLate)
        /\ req[c1].bookingId = bookings[i].booking_id
        /\ bookings[i].status = Confirmed
        /\ req[c2].op = "book" /\ req[c2].pc = "done"
        /\ req[c2].res = Response(409, MsgAlreadyBooked)
        /\ Len(bookings) = 1

\* C9: of the book requests that meet the lead time and the horizon, exactly
\* those with end after start and a duration of 15 to 480 minutes inclusive
\* pass the validation; the others are answered 400 with a duration message.
DurationBounds ==
    \A c \in Clients :
        (/\ req[c].op = "book"
         /\ LeadTimeMet(req[c].slotStart) /\ HorizonMet(req[c].slotStart))
        => /\ req[c].pc = "insert" <=> DurationValid(req[c].slotStart, req[c].slotEnd)
           /\ req[c].pc # "insert" =>
                /\ req[c].res.status = 400
                /\ req[c].res.error \in {MsgTooShort, MsgTooLong}

DurationBoundsWitness ==
    \E c1, c2 \in Clients :
        /\ req[c1].op = "book" /\ req[c1].pc = "insert"
        /\ req[c1].slotEnd - req[c1].slotStart = 15 * 60000
        /\ req[c2].op = "book" /\ req[c2].pc = "done"
        /\ req[c2].slotEnd - req[c2].slotStart = 480 * 60000 + 1000
        /\ req[c2].res = Response(400, MsgTooLong)

CancelCheckOrder ==
    [][\A c \in Clients :
        CancelStep(c) =>
            /\ RowsWithId(req'[c].bookingId) = {} =>
                    req'[c].res = Response(404, MsgNotFound)
            /\ \A i \in RowsWithId(req'[c].bookingId) :
                /\ bookings[i].status = Cancelled =>
                        req'[c].res = Response(400, MsgAlreadyCancelled)
                /\ (/\ bookings[i].status = Confirmed
                    /\ bookings[i].cancel_code # req'[c].cancelCode) =>
                        req'[c].res = Response(401, MsgInvalidCode)
                /\ (/\ bookings[i].status = Confirmed
                    /\ bookings[i].cancel_code = req'[c].cancelCode
                    /\ ~NoticeMet(bookings[i].slot_start)) =>
                        req'[c].res = Response(400, MsgTooLate)]_vars

CancelCheckOrderWitness ==
    \E c1, c2 \in Clients, i, j \in Rows :
        /\ req[c1].op = "cancel" /\ req[c1].pc = "done"
        /\ req[c1].bookingId = bookings[i].booking_id
        /\ req[c1].cancelCode # bookings[i].cancel_code
        /\ bookings[i].status = Confirmed
        /\ bookings[i].slot_start <= now + 12 * 3600000
        /\ bookings[i].slot_start >= now + 11 * 3600000
        /\ req[c1].res = Response(401, MsgInvalidCode)
        /\ req[c2].op = "cancel" /\ req[c2].pc = "done"
        /\ req[c2].bookingId = bookings[j].booking_id
        /\ req[c2].cancelCode # bookings[j].cancel_code
        /\ bookings[j].status = Cancelled
        /\ req[c2].res = Response(400, MsgAlreadyCancelled)

\* C14: the update of a cancel sets the status of the targeted reservation to
\* cancelled and changes nothing else: the other fields of that row, every
\* other row, the number of rows and the availability rules are unchanged.
CancelChangesOnlyStatus ==
    [][\A c \in Clients :
        UpdateStep(c) =>
            /\ Len(bookings') = Len(bookings)
            /\ \A i \in Rows :
                IF i = req[c].row
                THEN /\ bookings'[i].status = Cancelled
                     /\ bookings'[i].id = bookings[i].id
                     /\ bookings'[i].booking_id = bookings[i].booking_id
                     /\ bookings'[i].cancel_code = bookings[i].cancel_code
                     /\ bookings'[i].name = bookings[i].name
                     /\ bookings'[i].slot_start = bookings[i].slot_start
                     /\ bookings'[i].slot_end = bookings[i].slot_end
                     /\ bookings'[i].user_id = bookings[i].user_id
                     /\ bookings'[i].created_at = bookings[i].created_at
                ELSE bookings'[i] = bookings[i]
            /\ rules' = rules]_vars

CancelChangesOnlyStatusWitness ==
    \E c \in Clients, i, j \in Rows :
        /\ req[c].op = "cancel" /\ req[c].pc = "done"
        /\ req[c].res.status = 200 /\ req[c].row = i
        /\ bookings[i].status = Cancelled
        /\ j # i /\ bookings[j].status = Confirmed
        /\ bookings[j].user_id = bookings[i].user_id
        /\ bookings[j].created_at <= bookings[i].created_at
        /\ rules # << >>

\* C15: slotsOverlap(a, b) is true iff a.start < b.end and a.end > b.start;
\* it gives the same answer with its arguments exchanged; [10:00, 10:30) and
\* [10:30, 11:00) do not overlap, [10:29, 10:31) and [10:30, 11:00) do.
SlotsOverlapHalfOpen ==
    (call.fn = "slotsOverlap" /\ call.returned) =>
        LET a == call.slot1
            b == call.slot2
        IN  /\ call.result <=> (a.start < b.end /\ a.end > b.start)
            /\ call.result <=> (b.start < a.end /\ b.end > a.start)
            /\ (/\ a.start = 10 * 3600000 /\ a.end = 10 * 3600000 + 30 * 60000
                /\ b.start = 10 * 3600000 + 30 * 60000 /\ b.end = 11 * 3600000)
                    => call.result = FALSE
            /\ (/\ a.start = 10 * 3600000 + 29 * 60000
                /\ a.end = 10 * 3600000 + 31 * 60000
                /\ b.start = 10 * 3600000 + 30 * 60000 /\ b.end = 11 * 3600000)
                    => call.result = TRUE

SlotsOverlapHalfOpenWitness ==
    /\ call.fn = "slotsOverlap" /\ call.returned
    /\ call.slot1 = [start |-> 10 * 3600000 + 30 * 60000, end |-> 11 * 3600000]
    /\ call.slot2 = [start |-> 10 * 3600000, end |-> 10 * 3600000 + 30 * 60000]
    /\ call.result = FALSE

\* C16: for a policy-valid request [a, b) book finds a conflict exactly when
\* a confirmed reservation of the owner overlaps [a, b) by the half-open test
\* of the slot generator: it answers SlotAlreadyBooked then, and otherwise
\* (a request that only touches a reservation's start or end included) goes
\* on to its insert.
ConflictQueryIsHalfOpen ==
    [][\A c \in Clients :
        (BookStep(c) /\ PolicyValid(req'[c].slotStart, req'[c].slotEnd)) =>
            LET request == [start |-> req'[c].slotStart, end |-> req'[c].slotEnd]
                overlapping ==
                    {i \in ConfirmedRows(req'[c].user) :
                        slotsOverlap(request, [start |-> bookings[i].slot_start,
                                               end |-> bookings[i].slot_end])}
            IN  /\ overlapping = {i \in ConfirmedRows(req'[c].user) :
                                    /\ bookings[i].slot_start < request.end
                                    /\ bookings[i].slot_end > request.start}
                /\ existingBooking(req'[c].user, request.start, request.end) = overlapping
                /\ overlapping # {} => req'[c].res = Response(409, MsgAlreadyBooked)
                /\ overlapping = {} => req'[c].pc = "insert"]_vars

ConflictQueryIsHalfOpenWitness ==
    \E c1, c2 \in Clients, i \in Rows :
        /\ bookings[i].status = Confirmed /\ Len(bookings) = 1
        /\ req[c1].op = "book" /\ req[c1].pc = "insert"
        /\ req[c1].user = bookings[i].user_id
        /\ req[c1].slotStart = bookings[i].slot_end
        /\ req[c2].op = "book" /\ req[c2].pc = "done"
        /\ req[c2].user = bookings[i].user_id
        /\ req[c2].slotEnd = bookings[i].slot_start + 1
        /\ req[c2].res = Response(409, MsgAlreadyBooked)

\* C17: for the rule of the target date's weekday generateSlotsForDate emits
\* exactly floor((end - start) / interval) slots, the k-th being
\* [start + (k-1)*interval, start + k*interval): each of the rule's length,
\* none past the resolved end, none truncated, none when the window is
\* shorter than one interval, and none at all when no rule is for that
\* weekday.  Monday 09:00-17:00 with 30 minutes yields 16 slots, 09:00-09:30
\* the first and 16:30-17:00 the last.
SlotsPerRule ==
    (call.fn = "generateSlotsForDate" /\ call.returned) =>
        LET applicable ==
                {i \in 1..Len(call.availabilityRules) :
                    call.availabilityRules[i].day_of_week = Weekday(call.date)}
        IN  /\ applicable = {} => call.result = << >>
            /\ \A i \in applicable :
                LET rule == call.availabilityRules[i]
                IN  applicable = {i} =>
                        /\ Len(call.result) =
                                IF WholeIntervals(call.date, rule) > 0
                                THEN WholeIntervals(call.date, rule) ELSE 0
                        /\ \A k \in 1..Len(call.result) :
                            /\ call.result[k].start = KthStart(call.date, rule, k)
                            /\ call.result[k].end = KthEnd(call.date, rule, k)
                            /\ call.result[k].end - call.result[k].start
                                    = rule.interval_minutes * 60000
                            /\ call.result[k].end
                                    <= Resolved(call.date, rule.end_time, rule.timezone)
            /\ (call.availabilityRules = <<MondayFull>> /\ call.date = 4 * 86400000) =>
                    /\ Len(call.result) = 16
                    /\ call.result[1].start = 4 * 86400000 + 9 * 3600000
                    /\ call.result[1].end = 4 * 86400000 + 9 * 3600000 + 30 * 60000
                    /\ call.result[16].start = 4 * 86400000 + 16 * 3600000 + 30 * 60000
                    /\ call.result[16].end = 4 * 86400000 + 17 * 3600000

SlotsPerRuleWitness ==
    /\ call.fn = "generateSlotsForDate" /\ call.returned
    /\ call.availabilityRules = <<MondayRemainder>>
    /\ call.date = 4 * 86400000
    /\ Len(call.result) = 1
    /\ call.result[1].end = 4 * 86400000 + 9 * 3600000 + 45 * 60000

\* C18: each slot generateSlotsForDate emits is flagged available iff its
\* start is strictly after now + 2h, strictly before now + 14d, and no
\* reservation of the supplied set overlaps it (half-open).
FlagIsConjunction ==
    (call.fn = "generateSlotsForDate" /\ call.returned) =>
        \A k \in 1..Len(call.result) :
            call.result[k].available <=>
                /\ LeadTimeMet(call.result[k].start)
                /\ HorizonMet(call.result[k].start)
                /\ ~\E booking \in call.bookedSlots :
                        Overlap(call.result[k].start, call.result[k].end,
                                booking.slot_start, booking.slot_end)

FlagIsConjunctionWitness ==
    /\ call.fn = "generateSlotsForDate" /\ call.returned
    /\ \E k1, k2, k3, k4 \in 1..Len(call.result) :
        /\ call.result[k1].available
        /\ ~call.result[k2].available /\ ~HorizonMet(call.result[k2].start)
        /\ ~call.result[k3].available /\ HorizonMet(call.result[k3].start)
        /\ \E booking \in call.bookedSlots :
                Overlap(call.result[k3].start, call.result[k3].end,
                        booking.slot_start, booking.slot_end)
        /\ call.result[k4].start = call.result[k2].start - 30 * 60000
        /\ call.result[k4].available /\ k1 < k4

\* C19: every slot a /slots response lists overlaps no reservation of the
\* owner that is confirmed in the table when the response is produced,
\* wherever that reservation lies relative to the queried range.
ListedSlotsAreFree ==
    [][\A c \in Clients :
        GenerateStep(c) =>
            \A k \in 1..Len(req'[c].res.slots) :
                \A i \in ConfirmedRows(req[c].user) :
                    ~Overlap(req'[c].res.slots[k].start, req'[c].res.slots[k].end,
                             bookings[i].slot_start, bookings[i].slot_end)]_vars

\* C20: for every date of the queried range generateSlotsForDate returns all
\* the intervals of the date's rule, floor((end - start) / interval) of them,
\* whatever their flags; the /slots response lists exactly those it flags
\* available, each once, and nothing else.
ListingIsAvailableSubset ==
    [][\A c \in Clients :
        GenerateStep(c) =>
            LET rows == req[c].availabilityResult
                first == JanuaryDay(req[c].from)
                last == JanuaryDay(req[c].to)
                days == {first + d * 86400000 : d \in 0..((last - first) \div 86400000)}
                supplied == bookingsInRange(req[c].user, first, last + 86400000 - 1)
                generated ==
                    [day \in days |->
                        generateSlotsForDate(day, rows, supplied, rows[1].timezone)]
                flagged == {<<day, k>> \in days \X (1..16) :
                                /\ k <= Len(generated[day])
                                /\ generated[day][k].available}
                listed == req'[c].res.slots
            IN  /\ req'[c].res.status = 200
                /\ \A day \in days :
                    \A i \in 1..Len(rows) :
                        rows[i].day_of_week = Weekday(day) =>
                            Len(generated[day]) = WholeIntervals(day, rows[i])
                /\ \A p \in flagged :
                    \E m \in 1..Len(listed) :
                        /\ listed[m].start = generated[p[1]][p[2]].start
                        /\ listed[m].end = generated[p[1]][p[2]].end
                /\ \A m \in 1..Len(listed) :
                    \E p \in flagged :
                        /\ listed[m].start = generated[p[1]][p[2]].start
                        /\ listed[m].end = generated[p[1]][p[2]].end
                /\ Len(listed) = Cardinality(flagged)]_vars

ListingIsAvailableSubsetWitness ==
    \E c \in Clients, i \in Rows :
        /\ rules = <<MondayEvening>>
        /\ bookings[i].status = Confirmed /\ bookings[i].user_id = 1
        /\ bookings[i].slot_start = 4 * 86400000 + 20 * 3600000
        /\ bookings[i].slot_end = 4 * 86400000 + 21 * 3600000
        /\ req[c].op = "slots" /\ req[c].pc = "done" /\ req[c].user = 1
        /\ req[c].res.status = 200
        /\ Len(req[c].res.slots) = 2
        /\ req[c].res.slots[1].start = 4 * 86400000 + 21 * 3600000
        /\ req[c].res.slots[2].start = 4 * 86400000 + 22 * 3600000

\* C21: the slots a slot query returns are in ascending order of start,
\* across all rules and all dates of the range: of two consecutive returned
\* slots the first does not start after the second.
ListedSlotsSorted ==
    \A c \in Clients :
        (req[c].op = "slots" /\ req[c].pc = "done" /\ req[c].res.status = 200) =>
            \A k \in 1..(Len(req[c].res.slots) - 1) :
                req[c].res.slots[k].start <= req[c].res.slots[k + 1].start

\* a listing over two dates in which slots of the Tuesday rule stand between
\* slots of the Monday rule
ListedSlotsSortedWitness ==
    \E c \in Clients :
        /\ req[c].op = "slots" /\ req[c].pc = "done" /\ req[c].res.status = 200
        /\ req[c].from = D19700105 /\ req[c].to = D19700106
        /\ Len(req[c].res.slots) = 5
        /\ req[c].res.slots[1].start = 4 * 86400000 + 20 * 3600000
        /\ req[c].res.slots[2].start = 4 * 86400000 + 20 * 3600000 + 30 * 60000
        /\ req[c].res.slots[3].start = 4 * 86400000 + 21 * 3600000
        /\ req[c].res.slots[4].start = 4 * 86400000 + 21 * 3600000 + 30 * 60000
        /\ req[c].res.slots[5].start = 4 * 86400000 + 22 * 3600000

RangeGuardAdmitsFourteenDates ==
    \A c \in Clients :
        req[c].op = "slots" =>
            LET first == JanuaryDay(req[c].from)
                last == JanuaryDay(req[c].to)
                covered == (last - first) \div 86400000 + 1
            IN  /\ last < first => Rejected(req[c])
                /\ (last >= first /\ covered > 14) => Rejected(req[c])
                /\ first = last => ~Rejected(req[c])
                /\ req[c].pc = "bookings" =>
                        LET dateRange == validateDateRange(req[c].from, req[c].to)
                        IN  Len(generateDateRange(dateRange.from, dateRange.to)) <= 14

\* C24: for an accepted range generateDateRange yields every calendar date
\* from from to to inclusive, each once and in ascending order, (to - from)
\* in days + 1 of them and a single date when from = to, and the listing
\* holds the available slots generated for each of these dates.
DateRangeEnumeratesEveryDate ==
    [][\A c \in Clients :
        GenerateStep(c) =>
            LET rows == req[c].availabilityResult
                dateRange == validateDateRange(req[c].from, req[c].to)
                dates == generateDateRange(dateRange.from, dateRange.to)
                first == JanuaryDay(req[c].from)
                last == JanuaryDay(req[c].to)
                supplied == bookingsInRange(req[c].user, dateRange.from, dateRange.to)
                listed == req'[c].res.slots
            IN  /\ Len(dates) = (last - first) \div 86400000 + 1
                /\ first = last => dates = <<first>>
                /\ \A k \in 1..Len(dates) : dates[k] = first + (k - 1) * 86400000
                /\ \A d \in 0..((last - first) \div 86400000) :
                    LET slotsForDate ==
                            generateSlotsForDate(first + d * 86400000, rows, supplied,
                                                 rows[1].timezone)
                    IN  \A n \in 1..Len(slotsForDate) :
                            slotsForDate[n].available =>
                                \E m \in 1..Len(listed) :
                                    /\ listed[m].start = slotsForDate[n].start
                                    /\ listed[m].end = slotsForDate[n].end]_vars

\* a finished listing of 1 to 14 January holds slots of both Mondays and of
\* both Tuesdays
DateRangeEnumeratesEveryDateWitness ==
    \E c \in Clients :
        /\ req[c].op = "slots" /\ req[c].pc = "done" /\ req[c].res.status = 200
        /\ req[c].from = D19700101 /\ req[c].to = D19700114
        /\ Len(req[c].res.slots) = 10
        /\ req[c].res.slots[1].start = 4 * 86400000 + 20 * 3600000
        /\ req[c].res.slots[2].start = 4 * 86400000 + 20 * 3600000 + 30 * 60000
        /\ req[c].res.slots[6].start = 11 * 86400000 + 20 * 3600000
        /\ req[c].res.slots[10].start = 11 * 86400000 + 22 * 3600000

\* C25: in every reachable state, after any interleaving of create and delete
\* requests, each (owner, weekday) pair has at most one availability rule.
OneRulePerOwnerAndWeekday ==
    \A i, j \in 1..Len(rules) :
        (rules[i].user_id = rules[j].user_id /\ rules[i].day_of_week = rules[j].day_of_week)
            => i = j

\* two creates of owner 1 for Monday both passed the existence check; one has
\* stored its rule and the other has been answered after its INSERT failed
OneRulePerOwnerAndWeekdayWitness ==
    \E c, d \in Clients :
        /\ c # d
        /\ req[c].op = "createRule" /\ req[c].pc = "done" /\ req[c].res.status = 201
        /\ req[d].op = "createRule" /\ req[d].pc = "done" /\ req[d].res.status = 500
        /\ req[c].user = 1 /\ req[d].user = 1
        /\ req[c].body.dayOfWeek = 1 /\ req[d].body.dayOfWeek = 1
        /\ \E i \in 1..Len(rules) :
            rules[i].id = req[c].row /\ rules[i].user_id = 1 /\ rules[i].day_of_week = 1

\* C26: a create-rule request for an owner and weekday that already has a
\* rule is answered 409 and leaves the rules unchanged, both when the rule
\* is there as the request arrives and when it was stored by a racing create
\* between the request's existence check and its insert.
ExistingRuleAnswered409 ==
    [][\A c \in Clients :
        /\ (CreateRuleStep(c)
                /\ RulesOf(rules, req'[c].user, req'[c].body.dayOfWeek) # {})
            => (req'[c].pc = "done" /\ req'[c].res.status = 409 /\ rules' = rules)
        /\ (RuleInsertStep(c)
                /\ RulesOf(rules, req[c].user, req[c].body.dayOfWeek) # {})
            => (req'[c].res.status = 409 /\ rules' = rules)]_vars

\* C27: every availability rule in the store has a weekday in 0..6, an end
\* time strictly after its start time and an interval of 15 to 480 minutes;
\* a create request violating any of these is rejected and stores nothing.
StoredRulesWellFormed ==
    /\ [](\A i \in 1..Len(rules) :
            /\ rules[i].day_of_week \in 0..6
            /\ ClockMinutes(rules[i].end_time) > ClockMinutes(rules[i].start_time)
            /\ rules[i].interval_minutes >= 15 /\ rules[i].interval_minutes <= 480)
    /\ [][\A c \in Clients :
            ((CreateRuleStep(c) \/ RuleInsertStep(c)) /\ BodyViolates(req'[c].body))
                => /\ rules' = rules
                   /\ req'[c].pc = "done" => req'[c].res.status \in {400, 409, 500}]_vars

\* a create with start 9:00 and end 08:00 has passed the handler's checks and
\* been refused by the table, next to stored rules of 15 and 480 minutes
StoredRulesWellFormedWitness ==
    \E c \in Clients :
        /\ req[c].op = "createRule" /\ req[c].pc = "done"
        /\ req[c].body.startTime = H900 /\ req[c].body.endTime = HM0800
        /\ req[c].res = Response(500, MsgInternal)
        /\ Len(rules) = 2
        /\ \E i, j \in 1..Len(rules) :
            rules[i].interval_minutes = 15 /\ rules[j].interval_minutes = 480

\* C28: a delete removes the rule with the given id when it exists and
\* belongs to the calling owner; with an unknown id or the id of another
\* owner's rule it answers 404 and removes nothing, so a delete never removes
\* a rule of another owner; once a rule is deleted, a create for the same
\* owner and weekday is no longer refused.
DeleteOnlyOwnRule ==
    [][\A c \in Clients :
        /\ (DeleteRuleStep(c) /\ isDigit(req'[c].id[1])) =>
                LET owned == {i \in 1..Len(rules) :
                                /\ rules[i].id = digitValue(req'[c].id[1])
                                /\ rules[i].user_id = req'[c].user}
                IN  /\ rules' = rules
                    /\ owned = {} =>
                            req'[c].pc = "done" /\ req'[c].res = Response(404, MsgRuleNotFound)
                    /\ owned # {} => req'[c].pc = "delete"
        /\ RuleDeleteStep(c) =>
                LET kept == {i \in 1..Len(rules) :
                                ~(/\ rules[i].id = digitValue(req[c].id[1])
                                  /\ rules[i].user_id = req[c].user)}
                IN  /\ req'[c].res.status = 200
                    /\ Len(rules') = Cardinality(kept)
                    /\ \A i \in kept : \E j \in 1..Len(rules') : rules'[j] = rules[i]
                    /\ \A i \in 1..Len(rules) :
                            rules[i].user_id # req[c].user =>
                                \E j \in 1..Len(rules') : rules'[j] = rules[i]
        /\ (CreateRuleStep(c)
                /\ RulesOf(rules, req'[c].user, req'[c].body.dayOfWeek) = {}
                /\ ~BodyViolates(req'[c].body))
            => req'[c].pc = "insert"
        /\ (RuleInsertStep(c)
                /\ RulesOf(rules, req[c].user, req[c].body.dayOfWeek) = {})
            => /\ req'[c].res.status = 201
               /\ RulesOf(rules', req[c].user, req[c].body.dayOfWeek) # {}]_vars

\* owner 2 has been answered 404 for rule 1, which is owner 1's and still
\* stored; owner 1's delete of rule 2 has been answered 200, the rule is gone
\* and a later rule of owner 1 is stored
DeleteOnlyOwnRuleWitness ==
    \E c, d \in Clients :
        /\ req[c].op = "deleteRule" /\ req[c].pc = "done" /\ req[c].user = 2
        /\ req[c].id = <<"1">> /\ req[c].res = Response(404, MsgRuleNotFound)
        /\ \E i \in 1..Len(rules) : rules[i].id = 1 /\ rules[i].user_id = 1
        /\ req[d].op = "deleteRule" /\ req[d].pc = "done" /\ req[d].user = 1
        /\ req[d].id = <<"2">> /\ req[d].res.status = 200
        /\ ~ \E i \in 1..Len(rules) : rules[i].id = 2
        /\ \E i \in 1..Len(rules) : rules[i].id = 3 /\ rules[i].user_id = 1

\* C29: every successful book stores one new reservation with status
\* confirmed, a public identifier that no other reservation in the store
\* has, and a cancel code of exactly 6 characters from A-Z and 0-9, and
\* returns that reservation; the identifiers in the store are pairwise
\* different.
BookStoresFreshReservation ==
    /\ [](\A i, j \in Rows : bookings[i].booking_id = bookings[j].booking_id => i = j)
    /\ [][\A c \in Clients :
            (InsertStep(c) /\ req'[c].res.status = 201) =>
                LET stored == bookings'[Len(bookings')]
                IN  /\ Len(bookings') = Len(bookings) + 1
                    /\ \A i \in Rows : bookings'[i] = bookings[i]
                    /\ stored.status = "confirmed"
                    /\ stored.user_id = req[c].user
                    /\ stored.slot_start = req[c].slotStart
                    /\ stored.slot_end = req[c].slotEnd
                    /\ \A i \in Rows : bookings[i].booking_id # stored.booking_id
                    /\ Len(stored.cancel_code) = 6
                    /\ \A k \in 1..Len(stored.cancel_code) :
                        stored.cancel_code[k] \in
                            {"A", "B", "C", "D", "E", "F", "G", "H", "I", "J", "K", "L",
                             "M", "N", "O", "P", "Q", "R", "S", "T", "U", "V", "W", "X",
                             "Y", "Z", "0", "1", "2", "3", "4", "5", "6", "7", "8", "9"}
                    /\ req'[c].row = stored.id]_vars

\* two books have succeeded: their reservations are stored under different
\* identifiers with the same cancel code
BookStoresFreshReservationWitness ==
    \E c, d \in Clients :
        /\ c # d
        /\ Len(bookings) = 2
        /\ bookings[1].booking_id # bookings[2].booking_id
        /\ bookings[1].cancel_code = bookings[2].cancel_code
        /\ bookings[1].status = Confirmed /\ bookings[2].status = Confirmed
        /\ req[c].op = "book" /\ req[c].pc = "done" /\ req[c].res.status = 201
        /\ req[c].row = 2
        /\ req[d].op = "book" /\ req[d].pc = "done" /\ req[d].res.status = 201
        /\ req[d].row = 1

\* C30: a failed cancel does not tell whether the identifier or the code was
\* wrong: a cancel with an unknown identifier and a cancel with the
\* identifier of a stored reservation and a code that is not its code are
\* answered with the same failure; a code that differs from the stored one,
\* be it only in case, never cancels.
CancelFailureHidesCause ==
    /\ [](\A c, d \in Clients :
            (/\ req[c].op = "cancel" /\ req[c].pc = "done"
             /\ req[d].op = "cancel" /\ req[d].pc = "done"
             /\ RowsWithId(req[c].bookingId) = {}
             /\ \E i \in RowsWithId(req[d].bookingId) :
                    bookings[i].cancel_code # req[d].cancelCode)
            => req[c].res = req[d].res)
    /\ [][\A c \in Clients :
            CancelStep(c) =>
                \A i \in RowsWithId(req'[c].bookingId) :
                    bookings[i].cancel_code # req'[c].cancelCode =>
                        /\ Rejected(req'[c])
                        /\ bookings' = bookings]_vars

\* C31: every reservation in the store has its end strictly after its
\* start, a duration of 15 to 480 minutes, and a start that was, at the
\* instant the reservation was created, strictly more than 2 hours and
\* strictly less than 14 days ahead.
StoredReservationsWithinPolicy ==
    \A i \in Rows :
        /\ DurationValid(bookings[i].slot_start, bookings[i].slot_end)
        /\ bookings[i].slot_start > bookings[i].created_at + 2 * 3600000
        /\ bookings[i].slot_start < bookings[i].created_at + 14 * 86400000


ConfirmedMatchesCandidateSlot ==
    \A i \in {r \in Rows : bookings[r].status = Confirmed} :
        \E d \in {-1, 0, 1} :
            LET date == startOfDay(bookings[i].slot_start) + d * 86400000
                candidates == generateSlotsForDate(date,
                                  availabilityRows(bookings[i].user_id),
                                  {}, "UTC")
            IN  \E k \in 1..Len(candidates) :
                    /\ candidates[k].start = bookings[i].slot_start
                    /\ candidates[k].end = bookings[i].slot_end


\* C34: every slot of a listing carries the timezone of the owner's first
\* rule in the order by weekday, then start time, and its local start and
\* end are the wall clock of that zone at the slot's instants, also when the
\* slot comes from a rule of another zone; the instants themselves are the
\* k-th interval of some rule of the owner, resolved on a date of the rule's
\* weekday in the rule's own timezone.
SlotsCarryReferenceZone ==
    \A c \in Clients :
        (req[c].op = "slots" /\ req[c].pc = "done" /\ req[c].res.status = 200) =>
            \A n \in 1..Len(req[c].res.slots) :
                LET slot == req[c].res.slots[n]
                IN  /\ \E i \in FirstRules(req[c].user) :
                            slot.timezone = rules[i].timezone
                    /\ WallClock(slot.startLocal)
                            - tzOffsetMinutes(slot.timezone) * 60000 = slot.start
                    /\ WallClock(slot.endLocal)
                            - tzOffsetMinutes(slot.timezone) * 60000 = slot.end
                    /\ \E i \in 1..Len(rules), d \in 0..20 :
                        /\ rules[i].user_id = req[c].user
                        /\ Weekday(d * 86400000) = rules[i].day_of_week
                        /\ \E k \in 1..WholeIntervals(d * 86400000, rules[i]) :
                            /\ slot.start = KthStart(d * 86400000, rules[i], k)
                            /\ slot.end = KthEnd(d * 86400000, rules[i], k)

\* a listing in Asia/Kolkata, the zone of the Monday rule, with the slot of
\* the Tuesday rule in UTC at 20:00Z shown as Wednesday 01:30
SlotsCarryReferenceZoneWitness ==
    \E c \in Clients :
        /\ req[c].op = "slots" /\ req[c].pc = "done" /\ req[c].res.status = 200
        /\ \E n \in 1..Len(req[c].res.slots) :
            /\ req[c].res.slots[n].timezone = "Asia/Kolkata"
            /\ req[c].res.slots[n].start = 5 * 86400000 + 20 * 3600000
            /\ req[c].res.slots[n].startLocal =
                    <<"1", "9", "7", "0", "-", "0", "1", "-", "0", "7", " ",
                      "0", "1", ":", "3", "0", ":", "0", "0">>
        /\ \E i \in 1..Len(rules) :
            rules[i].user_id = req[c].user /\ rules[i].timezone = "UTC"


\* C35: a cancelled reservation never blocks a booking.  A policy-valid book
\* whose interval overlaps no confirmed reservation of the owner, whatever
\* cancelled reservations it overlaps or equals, goes on to its insert; the
\* insert made while still no confirmed reservation of the owner overlaps
\* stores it confirmed and answers 201, unless the identifier drawn for it is
\* already taken; and an interval is held by at most one confirmed
\* reservation of an owner, next to any number of cancelled ones.
CancelledNeverBlocks ==
    /\ [](\A i, j \in Rows :
            (/\ bookings[i].status = Confirmed /\ bookings[j].status = Confirmed
             /\ bookings[i].user_id = bookings[j].user_id
             /\ bookings[i].slot_start = bookings[j].slot_start
             /\ bookings[i].slot_end = bookings[j].slot_end) => i = j)
    /\ [][\A c \in Clients :
            /\ (/\ BookStep(c)
                /\ PolicyValid(req'[c].slotStart, req'[c].slotEnd)
                /\ \A i \in ConfirmedRows(req'[c].user) :
                        ~Overlap(req'[c].slotStart, req'[c].slotEnd,
                                 bookings[i].slot_start, bookings[i].slot_end))
               => req'[c].pc = "insert"
            /\ (/\ InsertStep(c)
                /\ \A i \in ConfirmedRows(req[c].user) :
                        ~Overlap(req[c].slotStart, req[c].slotEnd,
                                 bookings[i].slot_start, bookings[i].slot_end))
               => \/ /\ req'[c].res.status = 201
                     /\ Len(bookings') = Len(bookings) + 1
                     /\ bookings'[Len(bookings')].status = Confirmed
                     /\ bookings'[Len(bookings')].user_id = req[c].user
                     /\ bookings'[Len(bookings')].slot_start = req[c].slotStart
                     /\ bookings'[Len(bookings')].slot_end = req[c].slotEnd
                     /\ \A i \in Rows : bookings'[i] = bookings[i]
                  \/ /\ req'[c].res = Response(500, MsgInternal)
                     /\ bookings' = bookings
                     /\ \E i \in Rows : bookings[i].booking_id \in Uuids]_vars

\* the interval has been booked and cancelled twice and is booked a third
\* time: two cancelled rows and one confirmed row for it
CancelledNeverBlocksWitness ==
    \E c \in Clients :
        /\ Len(bookings) = 3
        /\ \A i \in Rows :
            /\ bookings[i].user_id = 1
            /\ bookings[i].slot_start = bookings[1].slot_start
            /\ bookings[i].slot_end = bookings[1].slot_end
        /\ bookings[1].status = Cancelled /\ bookings[2].status = Cancelled
        /\ bookings[3].status = Confirmed
        /\ req[c].op = "book" /\ req[c].pc = "done" /\ req[c].res.status = 201
        /\ req[c].row = 3


ListedSlotsDisjoint ==
    \A c \in Clients :
        (req[c].op = "slots" /\ req[c].pc = "done" /\ req[c].res.status = 200) =>
            \A m, n \in 1..Len(req[c].res.slots) :
                m # n => ~Overlap(req[c].res.slots[m].start, req[c].res.slots[m].end,
                                  req[c].res.slots[n].start, req[c].res.slots[n].end)


\* C38: slot generation terminates.  Every iteration of the loop over a
\* rule's window that does not leave the loop moves the cursor forward by the
\* rule's interval, at least 15 minutes, and not past the window's end, and
\* the loop is left only when the cursor has reached the end or the next
\* slot would pass it; every iteration of the loop over the dates moves the
\* current date forward by one day and the loop is left only when it has
\* passed the end date; and every loop is left in the end.
SlotGenerationTerminates ==
    /\ [][/\ (call.fn = "generateSlotsForDate" /\ ~call.returned) =>
                IF call'.returned
                THEN /\ \/ call.currentSlot >= call.slotEnd
                        \/ call.currentSlot + call.interval_minutes * 60000 > call.slotEnd
                     /\ call'.slots = call.slots
                ELSE /\ call.interval_minutes >= 15
                     /\ call'.currentSlot
                            = call.currentSlot + call.interval_minutes * 60000
                     /\ call'.currentSlot > call.currentSlot
                     /\ call'.currentSlot <= call.slotEnd
                     /\ call'.slotEnd = call.slotEnd
                     /\ Len(call'.slots) = Len(call.slots) + 1
          /\ (call.fn = "generateDateRange" /\ ~call.returned) =>
                IF call'.returned
                THEN call.currentDate > call.endDate /\ call'.dates = call.dates
                ELSE /\ call'.currentDate = call.currentDate + 86400000
                     /\ call.currentDate <= call.endDate
                     /\ call'.endDate = call.endDate
                     /\ Len(call'.dates) = Len(call.dates) + 1]_vars
    /\ <>(call.returned)

\* the loop over Monday 09:00-17:00 with the shortest interval has returned
\* after 32 slots, its cursor on the end of the window
SlotGenerationTerminatesWitness ==
    /\ call.returned
    /\ call.fn = "generateSlotsForDate"
    /\ call.interval_minutes = 15 /\ Len(call.slots) = 32
    /\ call.currentSlot = call.slotEnd


\* C39: no step of a rule create or a rule delete changes a reservation, and
\* no step of a slot query changes a reservation or a rule.  Whatever rules
\* exist, a policy-valid book that overlaps a confirmed reservation of the
\* owner is answered SlotAlreadyBooked, and a cancel with the identifier and
\* code of a confirmed reservation starting more than 12 hours ahead goes on
\* to its update, which leaves the reservation cancelled.
RulesAndListingsLeaveReservations ==
    [][\A c \in Clients :
        /\ (CreateRuleStep(c) \/ RuleInsertStep(c) \/ DeleteRuleStep(c) \/ RuleDeleteStep(c))
            => bookings' = bookings
        /\ ((Free(c) /\ req'[c] # req[c] /\ req'[c].op = "slots") \/ GenerateStep(c))
            => /\ bookings' = bookings
               /\ rules' = rules
               /\ availability_rules_id_seq' = availability_rules_id_seq
        /\ (/\ BookStep(c)
            /\ PolicyValid(req'[c].slotStart, req'[c].slotEnd)
            /\ \E i \in ConfirmedRows(req'[c].user) :
                    Overlap(req'[c].slotStart, req'[c].slotEnd,
                            bookings[i].slot_start, bookings[i].slot_end))
            => req'[c].res = Response(409, MsgAlreadyBooked)
        /\ CancelStep(c) =>
            \A i \in RowsWithId(req'[c].bookingId) :
                (/\ bookings[i].cancel_code = req'[c].cancelCode
                 /\ bookings[i].status = Confirmed
                 /\ NoticeMet(bookings[i].slot_start))
                => req'[c].pc = "update" /\ req'[c].row = i
        /\ UpdateStep(c) =>
            /\ bookings'[req[c].row].status = Cancelled
            /\ req'[c].res.status = 200]_vars

\* the owner's only rule has been deleted, the reservation booked under it
\* is still confirmed, and a book for its interval was answered 409
RulesAndListingsLeaveReservationsWitness ==
    \E c, d \in Clients, i \in Rows :
        /\ rules = << >> /\ availability_rules_id_seq >= 1
        /\ bookings[i].status = Confirmed /\ bookings[i].user_id = 1
        /\ req[d].op = "deleteRule" /\ req[d].pc = "done" /\ req[d].res.status = 200
        /\ req[c].op = "book" /\ req[c].pc = "done" /\ req[c].user = 1
        /\ req[c].res = Response(409, MsgAlreadyBooked)
        /\ req[c].slotStart = bookings[i].slot_start


\* C40: validateBookingSlot reports the first rule that fails in the order
\* lead time, horizon, minimum duration, maximum duration: an interval that
\* starts too soon is reported as a lead-time violation whatever its length,
\* and an interval whose end is at or before its start and whose start meets
\* the lead time and the horizon is reported as too short; the failure "end
\* must be after start" is never reported.
ValidationReportsFirstFailure ==
    (call.fn = "validateBookingSlot" /\ call.returned) =>
        /\ call.result =
            IF ~LeadTimeMet(call.slotStart) THEN MsgLeadTime
            ELSE IF ~HorizonMet(call.slotStart) THEN MsgHorizon
            ELSE IF call.slotEnd - call.slotStart < 15 * 60000 THEN MsgTooShort
            ELSE IF call.slotEnd - call.slotStart > 480 * 60000 THEN MsgTooLong
            ELSE NoError
        /\ (~LeadTimeMet(call.slotStart) /\ ~DurationValid(call.slotStart, call.slotEnd))
            => call.result = MsgLeadTime
        /\ (/\ call.slotEnd <= call.slotStart
            /\ LeadTimeMet(call.slotStart) /\ HorizonMet(call.slotStart))
            => call.result = MsgTooShort
        /\ call.result # MsgEndBeforeStart

\* an interval that ends an hour before it starts, 13 hours ahead, has been
\* reported as too short
ValidationReportsFirstFailureWitness ==
    /\ call.fn = "validateBookingSlot" /\ call.returned
    /\ call.slotStart = 13 * 3600000 /\ call.slotEnd = 12 * 3600000
    /\ call.result = MsgTooShort

====
